---- MODULE Spec2Model ----
(***************************************************************************)
(* A model of fabric-rti-mcp's request pipeline: the Auth Gate             *)
(* (authentication/auth_middleware.py), the Token Exchanger                *)
(* (authentication/token_obo_exchanger.py), the Credential Context and     *)
(* credential resolution (kusto/kusto_connection.py), the Connection      *)
(* Registry (kusto/kusto_service.py, kusto/kusto_config.py), the Result   *)
(* Codec (kusto/kusto_formatter.py) and the requests the tool functions    *)
(* send (kusto/kusto_service.py _execute, services/map/map_service.py).    *)
(*                                                                         *)
(* Spec runs the pipeline for concurrent requests.  SpecExtract,           *)
(* SpecRegistry, SpecRace, SpecExchange, SpecCodec and SpecTools exercise  *)
(* one component each over its inputs.                                     *)
(*                                                                         *)
(* Python str values that the code inspects character by character         *)
(* (header values, tokens) are sequences of one-character strings; texts   *)
(* the code only builds and passes on (messages) are TLA+ strings.         *)
(* Optional[str]'s None is the one-element tuple None below, which no       *)
(* sequence of characters equals.                                          *)
(***************************************************************************)
EXTENDS Integers, Sequences, FiniteSets, TLC

VARIABLES
    use_obo_flow,   \* common.py global_config.use_obo_flow
    obo_config,     \* obo_config.py obo_config (frozen dataclass)
    reqs,           \* per inbound request: check_auth's locals and what it did
    ctx,            \* _request_token: the ContextVar's value in each request's context
    cache,          \* KustoConnectionManager._cache
    kusto_env,      \* the KUSTO_* environment settings KustoConfig.from_env reads
    auth_header,    \* extract_token_from_header's argument (SpecExtract)
    extracted,      \* extract_token_from_header's result   (SpecExtract)
    get_log,        \* the calls of KustoConnectionManager.get so far (SpecRegistry)
    threads,        \* get() calls in progress, one per thread     (SpecRace)
    exchanged,      \* the last call of perform_obo_token_exchange  (SpecExchange)
    codec,          \* a result, its encoding and its decoding      (SpecCodec)
    sent            \* the tool calls so far and the requests they sent (SpecTools)

vars ==
    <<use_obo_flow, obo_config, reqs, ctx, cache, kusto_env, auth_header, extracted,
      get_log, threads, exchanged, codec, sent>>

gateVars == <<use_obo_flow, obo_config, reqs, ctx, cache, kusto_env>>
extractVars == <<auth_header, extracted>>
\* the variables of the specifications that exercise one component on its own
unitVars == <<get_log, threads, exchanged, codec, sent>>

(***************************************************************************)
(* Bounds.                                                                 *)
(***************************************************************************)
NumRequests == 2     \* inbound requests, processed concurrently
MaxTokenLen == 2     \* characters after the seven-character scheme prefix (SpecExtract)

Req == 1..NumRequests

None == <<"None">>

(***************************************************************************)
(* Python helpers.                                                         *)
(***************************************************************************)
\* bool(x) of an Optional[str]
Truthy(x) == x # None /\ x # <<>>

\* a or b
PyOr(a, b) == IF Truthy(a) THEN a ELSE b

\* str.lower(), character by character
LowerChar(c) ==
    CASE c = "A" -> "a" [] c = "B" -> "b" [] c = "E" -> "e" [] c = "R" -> "r"
      [] c = "M" -> "m" [] c = "Q" -> "q" [] c = "W" -> "w" [] c = "X" -> "x"
      [] OTHER -> c

lower(s) == [i \in 1..Len(s) |-> LowerChar(s[i])]

\* s.startswith(p)
startswith(s, p) == Len(s) >= Len(p) /\ SubSeq(s, 1, Len(p)) = p

\* s[n:]
SliceFrom(s, n) == SubSeq(s, n + 1, Len(s))

BearerPrefix == <<"b", "e", "a", "r", "e", "r", " ">>

BearerPrefixLen == 7

(***************************************************************************)
(* auth_middleware.py: extract_token_from_header                           *)
(***************************************************************************)
\* a slip: the prefix is compared case-sensitively
extract_token_case_sensitive(h) ==
    IF startswith(h, BearerPrefix) THEN SliceFrom(h, BearerPrefixLen) ELSE h

extract_token_from_header(h) ==
    IF startswith(lower(h), BearerPrefix) THEN SliceFrom(h, BearerPrefixLen) ELSE h

(***************************************************************************)
(* auth_middleware.py: decode_jwt_token                                    *)
(***************************************************************************)
\* str.split(sep)
RECURSIVE split(_, _)
split(s, sep) ==
    IF \E i \in 1..Len(s) : s[i] = sep
    THEN LET i == CHOOSE k \in 1..Len(s) : s[k] = sep /\ \A j \in 1..(k - 1) : s[j] # sep
         IN  <<SubSeq(s, 1, i - 1)>> \o split(SubSeq(s, i + 1, Len(s)), sep)
    ELSE <<s>>

\* c * n
Repeat(c, n) == [i \in 1..n |-> c]

\* str.replace(a, b) for one-character a and b
replace(s, a, b) == [i \in 1..Len(s) |-> IF s[i] = a THEN b ELSE s[i]]

B64Alphabet ==
    << "A", "B", "C", "D", "E", "F", "G", "H", "I", "J", "K", "L", "M", "N", "O", "P",
       "Q", "R", "S", "T", "U", "V", "W", "X", "Y", "Z", "a", "b", "c", "d", "e", "f",
       "g", "h", "i", "j", "k", "l", "m", "n", "o", "p", "q", "r", "s", "t", "u", "v",
       "w", "x", "y", "z", "0", "1", "2", "3", "4", "5", "6", "7", "8", "9", "+", "/" >>

IsB64Char(c) == \E i \in 1..Len(B64Alphabet) : B64Alphabet[i] = c

B64Val(c) == (CHOOSE i \in 1..Len(B64Alphabet) : B64Alphabet[i] = c) - 1

IsPad(c) == c = "="

\* the bytes of the complete and trailing groups of sextets
RECURSIVE B64Bytes(_)
B64Bytes(d) ==
    IF Len(d) < 2 THEN <<>>
    ELSE LET a == B64Val(d[1])
             b == B64Val(d[2])
             b1 == ((a * 4) + (b \div 16)) % 256
         IN  IF Len(d) = 2 THEN <<b1>>
             ELSE LET c == B64Val(d[3])
                      b2 == (((b % 16) * 16) + (c \div 4)) % 256
                  IN  IF Len(d) = 3 THEN <<b1, b2>>
                      ELSE <<b1, b2, (((c % 4) * 64) + B64Val(d[4])) % 256>>
                               \o B64Bytes(SubSeq(d, 5, Len(d)))

\* base64.b64decode(s), non-strict: characters outside the alphabet are discarded;
\* a lone trailing sextet or missing padding raises binascii.Error
b64decode(s) ==
    LET data == SelectSeq(s, IsB64Char)
        pads == Len(SelectSeq(s, IsPad))
        q == Len(data) % 4
    IN  IF q = 0 \/ (q >= 2 /\ q + pads >= 4)
        THEN [ok |-> TRUE, bytes |-> B64Bytes(data)]
        ELSE [ok |-> FALSE, bytes |-> <<>>]

IsDigit(b) == b >= 48 /\ b <= 57

\* json.loads(bytes) on the documents the model's tokens can carry: an empty
\* object, an empty array, an empty string, an unsigned integer; any other
\* byte sequence of the model is not a JSON document (JSONDecodeError)
json_loads(bytes) ==
    IF bytes = <<123, 125>> THEN [kind |-> "dict"]
    ELSE IF bytes = <<91, 93>> THEN [kind |-> "list"]
    ELSE IF bytes = <<34, 34>> THEN [kind |-> "str"]
    ELSE IF Len(bytes) > 0 /\ (\A i \in 1..Len(bytes) : IsDigit(bytes[i]))
              /\ (Len(bytes) = 1 \/ bytes[1] # 48) THEN [kind |-> "int"]
    ELSE [kind |-> "error"]

EmptyClaims == [kind |-> "dict"]

JwtParts == 3

\* the value decode_jwt_token returns: whatever json.loads produced, or {}
decode_jwt_token(token) ==
    LET parts == split(token, ".")
    IN  IF Len(parts) # JwtParts THEN EmptyClaims
        ELSE LET payload_encoded == parts[2]
                 padding == IF Len(payload_encoded) % 4 # 0
                            THEN Repeat("=", 4 - (Len(payload_encoded) % 4))
                            ELSE <<>>
                 payload_padded == payload_encoded \o padding
                 payload_fixed == replace(replace(payload_padded, "-", "+"), "_", "/")
                 decoded == b64decode(payload_fixed)
                 payload == json_loads(decoded.bytes)
             IN  IF decoded.ok /\ payload.kind # "error" THEN payload ELSE EmptyClaims

\* token_payload.get(...): only a mapping has .get; anything else raises AttributeError
ClaimsReadable(token_payload) == token_payload.kind = "dict"

(***************************************************************************)
(* token_obo_exchanger.py: TokenOboExchanger.perform_obo_token_exchange    *)
(*                                                                         *)
(* env is what the two identity services do when called: whether           *)
(* ManagedIdentityCredential.get_token raises, whether                     *)
(* acquire_token_on_behalf_of raises, and the result mapping it returns.   *)
(* The value is [raised, type, message, value, calls, user_assertion]: the *)
(* exception that leaves the function or the token it returns, the remote  *)
(* calls made, and the user_assertion given to acquire_token_on_behalf_of  *)
(* (None when that call was not made).                                     *)
(***************************************************************************)
\* dict.get(k) of a mapping of texts; a missing key reads as the empty text
DictGet(d, k) == IF k \in DOMAIN d THEN d[k] ELSE ""

\* a or b on texts
TextOr(a, b) == IF a # "" THEN a ELSE b

Raise(type, message, calls) ==
    [raised |-> TRUE, type |-> type, message |-> message, value |-> None, calls |-> calls,
     user_assertion |-> None]

Return(value, calls) ==
    [raised |-> FALSE, type |-> "", message |-> "", value |-> value, calls |-> calls,
     user_assertion |-> None]

MiErrorText == "ManagedIdentityCredential authentication unavailable"
OboErrorText == "Unable to reach the identity provider"

\* a slip: the provider's error code is preferred to its description
obo_try_block_code_first(user_token, env) ==
    IF env.mi_raises THEN Raise("Exception", MiErrorText, <<"managed_identity">>)
    ELSE IF env.obo_raises
         THEN [Raise("Exception", OboErrorText, <<"managed_identity", "on_behalf_of">>)
                  EXCEPT !.user_assertion = user_token]
    ELSE IF "access_token" \notin DOMAIN env.result
         THEN LET error_msg == TextOr(DictGet(env.result, "error"),
                                      TextOr(DictGet(env.result, "error_description"),
                                             "Unknown error"))
              IN  [Raise("Exception", "TokenOboExchanger: Failed to acquire token: " \o error_msg,
                         <<"managed_identity", "on_behalf_of">>)
                      EXCEPT !.user_assertion = user_token]
    ELSE [Return(env.result.access_token, <<"managed_identity", "on_behalf_of">>)
             EXCEPT !.user_assertion = user_token]

\* lines 65-104: the body of the try block
obo_try_block(user_token, env) ==
    IF env.mi_raises THEN Raise("Exception", MiErrorText, <<"managed_identity">>)
    ELSE IF env.obo_raises
         THEN [Raise("Exception", OboErrorText, <<"managed_identity", "on_behalf_of">>)
                  EXCEPT !.user_assertion = user_token]
    ELSE IF "access_token" \notin DOMAIN env.result
         THEN LET error_msg == TextOr(DictGet(env.result, "error_description"),
                                      TextOr(DictGet(env.result, "error"), "Unknown error"))
              IN  [Raise("Exception", "TokenOboExchanger: Failed to acquire token: " \o error_msg,
                         <<"managed_identity", "on_behalf_of">>)
                      EXCEPT !.user_assertion = user_token]
    ELSE [Return(env.result.access_token, <<"managed_identity", "on_behalf_of">>)
             EXCEPT !.user_assertion = user_token]

\* a slip: the managed identity's client id is not checked before the calls
perform_obo_token_exchange_late_check(cfg, user_token, env) ==
    IF cfg.entra_app_client_id = ""
    THEN Raise("ValueError",
               "Entra App client ID is required for OBO token exchange. "
                   \o "Set FABRIC_RTI_MCP_ENTRA_APP_CLIENT_ID environment variable.", <<>>)
    ELSE IF cfg.azure_tenant_id = ""
    THEN Raise("ValueError",
               "FABRIC_RTI_MCP_AZURE_TENANT_ID environment variable required for OBO token exchange",
               <<>>)
    ELSE LET inner == obo_try_block(user_token, env)
         IN  IF cfg.umi_client_id = ""
             THEN Raise("ValueError",
                        "FABRIC_RTI_MCP_USER_MANAGED_IDENTITY_CLIENT_ID environment variable "
                            \o "required for OBO token exchange", inner.calls)
             ELSE IF inner.raised
             THEN [Raise("Exception", "OBO token exchange failed: " \o inner.message, inner.calls)
                      EXCEPT !.user_assertion = inner.user_assertion]
             ELSE inner

perform_obo_token_exchange(cfg, user_token, env) ==
    IF cfg.entra_app_client_id = ""
    THEN Raise("ValueError",
               "Entra App client ID is required for OBO token exchange. "
                   \o "Set FABRIC_RTI_MCP_ENTRA_APP_CLIENT_ID environment variable.", <<>>)
    ELSE IF cfg.azure_tenant_id = ""
    THEN Raise("ValueError",
               "FABRIC_RTI_MCP_AZURE_TENANT_ID environment variable required for OBO token exchange",
               <<>>)
    ELSE IF cfg.umi_client_id = ""
    THEN Raise("ValueError",
               "FABRIC_RTI_MCP_USER_MANAGED_IDENTITY_CLIENT_ID environment variable required "
                   \o "for OBO token exchange", <<>>)
    ELSE LET inner == obo_try_block(user_token, env)
         IN  IF inner.raised
             THEN [Raise("Exception", "OBO token exchange failed: " \o inner.message, inner.calls)
                      EXCEPT !.user_assertion = inner.user_assertion]
             ELSE inner

(***************************************************************************)
(* kusto_connection.py: the Credential Context and credential resolution   *)
(***************************************************************************)
\* a slip: one module-level variable instead of a ContextVar
set_auth_token_global(c, r, token) == [q \in DOMAIN c |-> token]

\* _request_token.set(token) in request r's context
set_auth_token(c, r, token) == [c EXCEPT ![r] = token]

\* _request_token.get() in request r's context
get_auth_token(c, r) == c[r]

NoCredential == [kind |-> "none", token |-> None]

BearerTokenCredential(token) == [kind |-> "bearer", token |-> token]

DefaultAzureCredential == [kind |-> "ambient", token |-> None]

\* a slip: the credential is resolved once, when the Connection is built
get_credential_cached(conn, c, r) ==
    IF Truthy(conn.created_under) THEN BearerTokenCredential(conn.created_under)
    ELSE DefaultAzureCredential

\* KustoConnection._get_credential, called in request r's context
get_credential(conn, c, r) ==
    LET token == get_auth_token(c, r)
    IN  IF Truthy(token) THEN BearerTokenCredential(token) ELSE DefaultAzureCredential

IsSpace(ch) == ch \in {" ", "\t", "\n", "\r"}

\* str.strip()
RECURSIVE strip(_)
strip(s) ==
    IF Len(s) = 0 THEN s
    ELSE IF IsSpace(s[1]) THEN strip(Tail(s))
    ELSE IF IsSpace(s[Len(s)]) THEN strip(SubSeq(s, 1, Len(s) - 1))
    ELSE s

\* a slip: the URI is trimmed but keeps its trailing slash
sanitize_uri_trim_only(cluster_uri) == strip(cluster_uri)

sanitize_uri(cluster_uri) ==
    LET stripped == strip(cluster_uri)
    IN  IF Len(stripped) > 0 /\ stripped[Len(stripped)] = "/"
        THEN SubSeq(stripped, 1, Len(stripped) - 1)
        ELSE stripped

\* KustoConnectionStringBuilder.DEFAULT_DATABASE_NAME
DEFAULT_DATABASE_NAME == <<"N", "e", "t", "D", "e", "f", "a", "u", "l", "t", "D", "B">>

NoConnection == [cluster_uri |-> None, default_database |-> None, created_under |-> None]

\* KustoConnection.__init__; created_under is a history field of the model: the
\* Credential Context value in force when the Connection was built
KustoConnection(cluster_uri, default_database, under) ==
    [cluster_uri |-> sanitize_uri(cluster_uri),
     default_database |-> strip(PyOr(default_database, DEFAULT_DATABASE_NAME)),
     created_under |-> under]

(***************************************************************************)
(* kusto_config.py and kusto_service.py: the Connection Registry           *)
(***************************************************************************)
KustoServiceConfig(service_uri, default_database) ==
    [service_uri |-> service_uri, default_database |-> default_database]

\* KustoConfig.from_env(): a default service exists when KUSTO_SERVICE_URI is set
has_default_service(env) == Truthy(env.default_service_uri)

\* KustoConfig.from_env().default_service, when there is one
default_service(env) ==
    KustoServiceConfig(env.default_service_uri,
                       IF env.default_db = None THEN DEFAULT_DATABASE_NAME
                       ELSE env.default_db)

\* KustoConfig.get_known_services(): keyed by each service_uri as configured;
\* a later entry of the list replaces an earlier one with the same key
get_known_services(env) ==
    LET listed == {env.known_services[i].service_uri : i \in 1..Len(env.known_services)}
        last(u) == CHOOSE i \in 1..Len(env.known_services) :
                       /\ env.known_services[i].service_uri = u
                       /\ \A j \in (i + 1)..Len(env.known_services) :
                              env.known_services[j].service_uri # u
        keys == listed \cup (IF has_default_service(env)
                             THEN {default_service(env).service_uri} ELSE {})
    IN  [u \in keys |-> IF u \in listed THEN env.known_services[last(u)]
                        ELSE default_service(env)]

\* kusto_service._DEFAULT_DB_NAME
DEFAULT_DB_NAME(env) ==
    IF has_default_service(env) THEN default_service(env).default_database
    ELSE DEFAULT_DATABASE_NAME

\* a slip: the administrator's policy is not consulted
KustoConnectionManager_get_unchecked(cch, env, cluster_uri, under) ==
    LET sanitized_uri == sanitize_uri(cluster_uri)
        known_services == get_known_services(env)
    IN  IF sanitized_uri \in DOMAIN cch
        THEN [raised |-> FALSE, cache |-> cch, connection |-> cch[sanitized_uri]]
        ELSE LET default_database ==
                     IF sanitized_uri \in DOMAIN known_services
                     THEN PyOr(known_services[sanitized_uri].default_database,
                               DEFAULT_DB_NAME(env))
                     ELSE DEFAULT_DB_NAME(env)
                 connection == KustoConnection(sanitized_uri, default_database, under)
             IN  [raised |-> FALSE,
                  cache |-> [u \in DOMAIN cch \cup {sanitized_uri} |->
                                IF u = sanitized_uri THEN connection ELSE cch[u]],
                  connection |-> connection]

\* KustoConnectionManager.get: [raised, cache, connection]; under is the
\* Credential Context value of the calling request (history only)
KustoConnectionManager_get(cch, env, cluster_uri, under) ==
    LET sanitized_uri == sanitize_uri(cluster_uri)
        known_services == get_known_services(env)
    IN  IF sanitized_uri \in DOMAIN cch
        THEN [raised |-> FALSE, cache |-> cch, connection |-> cch[sanitized_uri]]
        ELSE IF sanitized_uri \notin DOMAIN known_services /\ ~env.allow_unknown_services
        THEN [raised |-> TRUE, cache |-> cch, connection |-> NoConnection]
        ELSE LET default_database ==
                     IF sanitized_uri \in DOMAIN known_services
                     THEN PyOr(known_services[sanitized_uri].default_database,
                               DEFAULT_DB_NAME(env))
                     ELSE DEFAULT_DB_NAME(env)
                 connection == KustoConnection(sanitized_uri, default_database, under)
             IN  [raised |-> FALSE,
                  cache |-> [u \in DOMAIN cch \cup {sanitized_uri} |->
                                IF u = sanitized_uri THEN connection ELSE cch[u]],
                  connection |-> connection]

(***************************************************************************)
(* Inbound requests and the responses of the Auth Gate.                    *)
(***************************************************************************)
\* request.headers: a mapping keyed by lower-cased header name
NoHeaders == <<>>

WithAuthorization(v) == [authorization |-> v]

\* request.headers.get(name, default): the lookup ignores the name's case
HeadersGet(headers, name, default) ==
    LET key == IF name = "Authorization" THEN "authorization" ELSE name
    IN  IF key \in DOMAIN headers THEN headers[key] ELSE default

\* line 115
AuthHeaderOf(headers) ==
    PyOr(HeadersGet(headers, "Authorization", <<>>),
         HeadersGet(headers, "authorization", <<>>))

NoResponse == [status_code |-> 0, body |-> <<>>]

JSONResponse(content, status_code) == [status_code |-> status_code, body |-> content]

HTTP_UNAUTHORIZED == 401
HTTP_SERVER_ERROR == 500
HTTP_OK == 200

\* lines 118-120
MissingHeaderResponse ==
    JSONResponse([error |-> "unauthorized", message |-> "Authorization header required"],
                 HTTP_UNAUTHORIZED)

\* a slip: the exception's text is put into the response
ExchangeFailureResponseLeaky(e) ==
    JSONResponse([error |-> "unauthorized", message |-> e.message], HTTP_UNAUTHORIZED)

\* lines 143-152: the response to a failed exchange; e is only logged
ExchangeFailureResponse(e) ==
    JSONResponse([error |-> "unauthorized",
                  message |-> "Unauthorized to get the required token to access the resource"],
                 HTTP_UNAUTHORIZED)

\* line 176
ServerErrorResponse ==
    JSONResponse([error |-> "server_error", message |-> "Internal server error"],
                 HTTP_SERVER_ERROR)

\* what the wrapped application answers: server.py health_check for the liveness
\* path, the transport's answer otherwise
DownstreamResponse(req) ==
    IF req.path = "/health"
    THEN JSONResponse([status |-> "healthy", server |-> "fabric-rti-mcp"], HTTP_OK)
    ELSE JSONResponse([jsonrpc |-> "2.0"], HTTP_OK)

\* a slip: only the liveness path skips the gate
IsBypassedHealthOnly(method, path) == path = "/health"

\* lines 107-112
IsBypassed(method, path) == path = "/health" \/ method = "OPTIONS"

\* Authorization header values: <<>> is a header sent with an empty value
HdrBearerA == <<"B", "e", "a", "r", "e", "r", " ", "a">>
HdrLowerJwt == <<"b", "e", "a", "r", "e", "r", " ", "h", ".", "e", "3", "0", ".", "s">>
HdrPrefixOnly == <<"B", "e", "a", "r", "e", "r", " ">>
HdrRawIntJwt == <<"h", ".", "M", "Q", ".", "s">>

HeaderSets ==
    {NoHeaders} \cup {WithAuthorization(v) :
                         v \in {<<>>, HdrBearerA, HdrLowerJwt, HdrPrefixOnly, HdrRawIntJwt}}

\* the requests the model sends: every header set to the tool endpoint, and the
\* two bypassed kinds of request with and without an Authorization header
Inbound ==
    {<<"POST", "/mcp", h>> : h \in HeaderSets}
        \cup {<<m[1], m[2], h>> : m \in {<<"OPTIONS", "/mcp">>, <<"GET", "/health">>},
                                  h \in {NoHeaders, WithAuthorization(HdrBearerA)}}

\* what the identity services may do during one exchange
ProviderTokens == {<<"x">>, <<"y">>}

ProviderResults ==
    {[access_token |-> t] : t \in ProviderTokens}
        \cup {[error |-> "invalid_grant", error_description |-> "AADSTS500133: assertion expired"],
              [error |-> "invalid_grant"],
              <<>>}

IdentityEnvs ==
    {[mi_raises |-> TRUE, obo_raises |-> FALSE, result |-> <<>>],
     [mi_raises |-> FALSE, obo_raises |-> TRUE, result |-> <<>>]}
        \cup {[mi_raises |-> FALSE, obo_raises |-> FALSE, result |-> res] : res \in ProviderResults}

\* cluster URIs a tool call may name
ToolUris == {<<"k">>, <<"k", "/">>}

(***************************************************************************)
(* Configuration.                                                          *)
(***************************************************************************)
DEFAULT_TENANT_ID == "72f988bf-86f1-41af-91ab-2d7cd011db47"

\* obo_config.py lines 19-21
DefaultOboConfig ==
    [azure_tenant_id |-> DEFAULT_TENANT_ID, entra_app_client_id |-> "", umi_client_id |-> ""]

OboConfigs ==
    [azure_tenant_id : {"", DEFAULT_TENANT_ID},
     entra_app_client_id : {"", "app-client-id"},
     umi_client_id : {"", "umi-client-id"}]

\* server.py line 93: main() refuses to start the server otherwise
ServerStarts(flag, cfg) ==
    ~(flag /\ (cfg.entra_app_client_id = "" \/ cfg.umi_client_id = ""))

\* no KUSTO_* variable set
DefaultKustoEnv ==
    [default_service_uri |-> None, default_db |-> None, known_services |-> <<>>,
     allow_unknown_services |-> TRUE]

(***************************************************************************)
(* check_auth, one record per request.  pc is where the request is:        *)
(* "new" (not yet received), "exchange" (awaiting the Token Exchanger),    *)
(* "downstream" (inside call_next), "done" (answered).  The counters and   *)
(* published, ctx_at_next, observed, credential and fault (where an        *)
(* exception other than an exchange failure was raised) are history: what  *)
(* the gate and the tool logic did for this request.                       *)
(***************************************************************************)
NewRequest ==
    [pc |-> "new", method |-> "", path |-> "", headers |-> NoHeaders,
     token |-> None, exchanger_calls |-> 0, exchange_error |-> "",
     set_calls |-> 0, published |-> None, next_calls |-> 0, ctx_at_next |-> None,
     tool |-> "idle", observed |-> None, credential |-> NoCredential,
     created_under |-> None, fault |-> "", response |-> NoResponse, escaped |-> FALSE]

Received(in) == [NewRequest EXCEPT !.method = in[1], !.path = in[2], !.headers = in[3]]

\* a slip: the handler is missing and the exception leaves the gate
GateExceptEscapes(req) == [req EXCEPT !.pc = "done", !.escaped = TRUE]

\* lines 174-176: the outer handler
GateExcept(req) == [req EXCEPT !.pc = "done", !.response = ServerErrorResponse]

\* await call_next(request), seen from request r's context
CallNext(req, c, r) ==
    [req EXCEPT !.pc = "downstream", !.next_calls = @ + 1, !.ctx_at_next = get_auth_token(c, r)]

\* a slip: downstream processing is started before the token is stored
PublishAfterNext(req, c, r, token) ==
    LET c1 == set_auth_token(c, r, token)
        stored == [req EXCEPT !.token = token, !.set_calls = @ + 1, !.published = token]
    IN  [ctx |-> c1,
         req |-> IF ClaimsReadable(decode_jwt_token(token)) THEN CallNext(stored, c, r)
                 ELSE GateExcept([stored EXCEPT !.fault = "introspection"])]

\* lines 154-168: store the token, introspect it, continue downstream
Publish(req, c, r, token) ==
    LET c1 == set_auth_token(c, r, token)
        stored == [req EXCEPT !.token = token, !.set_calls = @ + 1, !.published = token]
    IN  [ctx |-> c1,
         req |-> IF ClaimsReadable(decode_jwt_token(token)) THEN CallNext(stored, c1, r)
                 ELSE GateExcept([stored EXCEPT !.fault = "introspection"])]

(***************************************************************************)
(* Actions.  check_auth runs without suspension from the arrival of a      *)
(* request to its first await; the model also lets other requests run      *)
(* while the Token Exchanger is awaited.                                   *)
(***************************************************************************)
GateUnchanged == UNCHANGED <<use_obo_flow, obo_config, kusto_env, extractVars, unitVars>>

\* lines 107-112: a bypassed request goes straight to call_next
Bypass(r, in) ==
    /\ reqs[r].pc = "new"
    /\ IsBypassed(in[1], in[2])
    /\ reqs' = [reqs EXCEPT ![r] = CallNext(Received(in), ctx, r)]
    /\ UNCHANGED <<ctx, cache>>
    /\ GateUnchanged

\* a slip: the header check is missing and the request continues with an empty token
RejectNoHeaderMissing(r, in) ==
    /\ reqs[r].pc = "new"
    /\ ~IsBypassed(in[1], in[2])
    /\ ~Truthy(AuthHeaderOf(in[3]))
    /\ LET out == Publish(Received(in), ctx, r, AuthHeaderOf(in[3]))
       IN  /\ reqs' = [reqs EXCEPT ![r] = out.req]
           /\ ctx' = out.ctx
    /\ UNCHANGED cache
    /\ GateUnchanged

\* lines 115-120: no Authorization header, or an empty one
RejectNoHeader(r, in) ==
    /\ reqs[r].pc = "new"
    /\ ~IsBypassed(in[1], in[2])
    /\ ~Truthy(AuthHeaderOf(in[3]))
    /\ reqs' = [reqs EXCEPT ![r] =
                   [Received(in) EXCEPT !.pc = "done", !.response = MissingHeaderResponse]]
    /\ UNCHANGED <<ctx, cache>>
    /\ GateUnchanged

\* a slip: the header value is stored without removing the scheme prefix
AcceptDirectRawHeader(r, in) ==
    /\ reqs[r].pc = "new"
    /\ ~IsBypassed(in[1], in[2])
    /\ Truthy(AuthHeaderOf(in[3]))
    /\ ~use_obo_flow
    /\ LET out == Publish(Received(in), ctx, r, AuthHeaderOf(in[3]))
       IN  /\ reqs' = [reqs EXCEPT ![r] = out.req]
           /\ ctx' = out.ctx
    /\ UNCHANGED cache
    /\ GateUnchanged

\* lines 126-141 and 154-168 with the on-behalf-of flag off
AcceptDirect(r, in) ==
    /\ reqs[r].pc = "new"
    /\ ~IsBypassed(in[1], in[2])
    /\ Truthy(AuthHeaderOf(in[3]))
    /\ ~use_obo_flow
    /\ LET token == extract_token_from_header(AuthHeaderOf(in[3]))
           out == Publish(Received(in), ctx, r, token)
       IN  /\ reqs' = [reqs EXCEPT ![r] = out.req]
           /\ ctx' = out.ctx
    /\ UNCHANGED cache
    /\ GateUnchanged

\* lines 126-136 with the flag on: the exchanger is built and awaited
StartExchange(r, in) ==
    /\ reqs[r].pc = "new"
    /\ ~IsBypassed(in[1], in[2])
    /\ Truthy(AuthHeaderOf(in[3]))
    /\ use_obo_flow
    /\ reqs' = [reqs EXCEPT ![r] =
                   [Received(in) EXCEPT !.pc = "exchange",
                                        !.token = extract_token_from_header(AuthHeaderOf(in[3])),
                                        !.exchanger_calls = @ + 1]]
    /\ UNCHANGED <<ctx, cache>>
    /\ GateUnchanged

\* a slip: the failure is logged and the request continues with the caller's token
ExchangeFailsFallsThrough(r, env) ==
    /\ reqs[r].pc = "exchange"
    /\ LET e == perform_obo_token_exchange(obo_config, reqs[r].token, env)
           out == Publish([reqs[r] EXCEPT !.exchange_error = e.message], ctx, r, reqs[r].token)
       IN  /\ e.raised
           /\ reqs' = [reqs EXCEPT ![r] = out.req]
           /\ ctx' = out.ctx
    /\ UNCHANGED cache
    /\ GateUnchanged

\* lines 143-152: the exchange raised
ExchangeFails(r, env) ==
    /\ reqs[r].pc = "exchange"
    /\ LET e == perform_obo_token_exchange(obo_config, reqs[r].token, env)
       IN  /\ e.raised
           /\ reqs' = [reqs EXCEPT ![r] =
                          [@ EXCEPT !.pc = "done", !.exchange_error = e.message,
                                    !.response = ExchangeFailureResponse(e)]]
    /\ UNCHANGED <<ctx, cache>>
    /\ GateUnchanged

\* lines 137-139 and 154-168: the exchanged token replaces the caller's
ExchangeSucceeds(r, env) ==
    /\ reqs[r].pc = "exchange"
    /\ LET e == perform_obo_token_exchange(obo_config, reqs[r].token, env)
           out == Publish(reqs[r], ctx, r, e.value)
       IN  /\ ~e.raised
           /\ reqs' = [reqs EXCEPT ![r] = out.req]
           /\ ctx' = out.ctx
    /\ UNCHANGED cache
    /\ GateUnchanged

\* kusto_service.py _execute: the tool logic of a request to the tool endpoint
\* obtains a Connection and uses it, which resolves the credential
ToolRun(r, uri) ==
    /\ reqs[r].pc = "downstream"
    /\ ~IsBypassed(reqs[r].method, reqs[r].path)
    /\ reqs[r].tool = "idle"
    /\ LET got == KustoConnectionManager_get(cache, kusto_env, uri, get_auth_token(ctx, r))
       IN  IF got.raised
           THEN /\ reqs' = [reqs EXCEPT ![r].tool = "refused"]
                /\ UNCHANGED cache
           ELSE /\ reqs' = [reqs EXCEPT ![r] =
                               [@ EXCEPT !.tool = "used",
                                         !.observed = get_auth_token(ctx, r),
                                         !.credential = get_credential(got.connection, ctx, r),
                                         !.created_under = got.connection.created_under]]
                /\ cache' = got.cache
    /\ UNCHANGED ctx
    /\ GateUnchanged

\* lines 108, 112, 168-172: call_next returns and its response is passed on
DownstreamReturns(r) ==
    /\ reqs[r].pc = "downstream"
    /\ reqs' = [reqs EXCEPT ![r] =
                   [@ EXCEPT !.pc = "done", !.response = DownstreamResponse(reqs[r])]]
    /\ UNCHANGED <<ctx, cache>>
    /\ GateUnchanged

\* call_next raises inside the try block
DownstreamRaises(r) ==
    /\ reqs[r].pc = "downstream"
    /\ reqs' = [reqs EXCEPT ![r] = GateExcept([reqs[r] EXCEPT !.fault = "call_next"])]
    /\ UNCHANGED <<ctx, cache>>
    /\ GateUnchanged

\* no component is being exercised on its own
UnitsIdle ==
    /\ get_log = <<>>
    /\ threads = <<>>
    /\ exchanged = <<>>
    /\ codec = <<>>
    /\ sent = <<>>

\* The server as main() starts it: the flag either way; with the flag on, the
\* client ids main() insists on and the tenant id set or emptied; with the
\* flag off, the on-behalf-of settings at their defaults.  No request has
\* arrived, every context holds the ContextVar's default, the cache is empty.
Init ==
    /\ use_obo_flow \in BOOLEAN
    /\ obo_config \in {cfg \in OboConfigs :
                          /\ ServerStarts(use_obo_flow, cfg)
                          /\ (~use_obo_flow => cfg = DefaultOboConfig)}
    /\ kusto_env = DefaultKustoEnv
    /\ reqs = [r \in Req |-> NewRequest]
    /\ ctx = [r \in Req |-> None]
    /\ cache = <<>>
    /\ auth_header = <<>>
    /\ extracted = None
    /\ UnitsIdle

Next ==
    \/ \E r \in Req, in \in Inbound : Bypass(r, in)
    \/ \E r \in Req, in \in Inbound : RejectNoHeader(r, in)
    \/ \E r \in Req, in \in Inbound : AcceptDirect(r, in)
    \/ \E r \in Req, in \in Inbound : StartExchange(r, in)
    \/ \E r \in Req, env \in IdentityEnvs : ExchangeFails(r, env)
    \/ \E r \in Req, env \in IdentityEnvs : ExchangeSucceeds(r, env)
    \/ \E r \in Req, uri \in ToolUris : ToolRun(r, uri)
    \/ \E r \in Req : DownstreamReturns(r)
    \/ \E r \in Req : DownstreamRaises(r)

Spec == Init /\ [][Next]_vars

(***************************************************************************)
(* extract_token_from_header on its own: header values are typed one       *)
(* character at a time and the function is applied to what was typed.      *)
(***************************************************************************)
UpperChar(c) ==
    CASE c = "a" -> "A" [] c = "b" -> "B" [] c = "e" -> "E" [] c = "r" -> "R" [] OTHER -> c

\* the characters tried at position i: both cases of the scheme's character and
\* another one; after the prefix, token characters and a blank
CharsAt(i) ==
    IF i <= BearerPrefixLen
    THEN {BearerPrefix[i], UpperChar(BearerPrefix[i]), "x"}
    ELSE {"a", "B", " "}

TypeChar(c) ==
    /\ extracted = None
    /\ Len(auth_header) < BearerPrefixLen + MaxTokenLen
    /\ c \in CharsAt(Len(auth_header) + 1)
    /\ auth_header' = Append(auth_header, c)
    /\ UNCHANGED <<extracted, gateVars, unitVars>>

Extract ==
    /\ extracted = None
    /\ extracted' = extract_token_from_header(auth_header)
    /\ UNCHANGED <<auth_header, gateVars, unitVars>>

InitExtract ==
    /\ use_obo_flow = FALSE
    /\ obo_config = DefaultOboConfig
    /\ kusto_env = DefaultKustoEnv
    /\ reqs = [r \in Req |-> NewRequest]
    /\ ctx = [r \in Req |-> None]
    /\ cache = <<>>
    /\ auth_header = <<>>
    /\ extracted = None
    /\ UnitsIdle

NextExtract ==
    \/ \E c \in {"b", "B", "e", "E", "a", "A", "r", "R", " ", "x"} : TypeChar(c)
    \/ Extract

SpecExtract == InitExtract /\ [][NextExtract]_vars

(***************************************************************************)
(* Properties.                                                             *)
(***************************************************************************)
HasArrived(req) == req.pc # "new"

\* the request is a preflight request or addressed to the liveness path
BypassKind(req) == req.method = "OPTIONS" \/ req.path = "/health"

\* the request carries no Authorization header, or one with an empty value
HeaderMissing(req) ==
    "authorization" \notin DOMAIN req.headers \/ req.headers["authorization"] = <<>>

\* resp is a JSON error response with this status and error code
IsError(resp, status, error) ==
    /\ resp.status_code = status
    /\ "error" \in DOMAIN resp.body
    /\ resp.body.error = error

ExchangeFailed(req) == req.exchange_error # ""

\* C1: with the on-behalf-of flag on, a request whose token exchange failed
\* (the exchanger raised, whether for missing configuration, a failing
\* identity service or a result without an access token) is answered 401
\* "unauthorized"; set_auth_token has not been called for it, its Credential
\* Context is untouched and call_next has not been invoked.
C1_ExchangeFailureRejects ==
    \A r \in Req :
        ExchangeFailed(reqs[r]) =>
            /\ use_obo_flow
            /\ reqs[r].pc = "done"
            /\ IsError(reqs[r].response, 401, "unauthorized")
            /\ reqs[r].set_calls = 0
            /\ ctx[r] = None
            /\ reqs[r].next_calls = 0

C1_Witness ==
    \E r \in Req :
        /\ use_obo_flow
        /\ ExchangeFailed(reqs[r])
        /\ reqs[r].exchanger_calls = 1
        /\ reqs[r].pc = "done"

\* C2: a received request that is neither OPTIONS nor addressed to the
\* liveness path and whose Authorization header is absent or empty is
\* answered 401 "unauthorized", and neither the Token Exchanger, nor
\* set_auth_token, nor call_next has been invoked for it.
C2_MissingHeaderRejects ==
    \A r \in Req :
        (HasArrived(reqs[r]) /\ ~BypassKind(reqs[r]) /\ HeaderMissing(reqs[r])) =>
            /\ reqs[r].pc = "done"
            /\ IsError(reqs[r].response, 401, "unauthorized")
            /\ reqs[r].exchanger_calls = 0
            /\ reqs[r].set_calls = 0
            /\ ctx[r] = None
            /\ reqs[r].next_calls = 0

C2_Witness ==
    \E r1, r2 \in Req :
        /\ HasArrived(reqs[r1]) /\ ~BypassKind(reqs[r1])
        /\ "authorization" \notin DOMAIN reqs[r1].headers
        /\ HasArrived(reqs[r2]) /\ ~BypassKind(reqs[r2])
        /\ "authorization" \in DOMAIN reqs[r2].headers
        /\ reqs[r2].headers["authorization"] = <<>>

\* C3: for a request that is not bypassed, call_next is invoked only with the
\* request's resulting token already stored by set_auth_token (the Credential
\* Context read at the moment of call_next is that token); set_auth_token is
\* called at most once per request, and a Credential Context that holds a
\* value holds the one the gate stored for that request.
C3_PublishBeforeDownstream ==
    \A r \in Req :
        /\ reqs[r].set_calls <= 1
        /\ reqs[r].next_calls <= 1
        /\ (reqs[r].next_calls > 0 /\ ~BypassKind(reqs[r])) =>
               /\ reqs[r].set_calls = 1
               /\ reqs[r].token # None
               /\ reqs[r].published = reqs[r].token
               /\ reqs[r].ctx_at_next = reqs[r].token
        /\ ctx[r] # None => (reqs[r].set_calls = 1 /\ ctx[r] = reqs[r].published)
        /\ reqs[r].set_calls = 0 => ctx[r] = None

C3_Witness ==
    \E r \in Req :
        /\ ~BypassKind(reqs[r])
        /\ reqs[r].pc = "downstream"
        /\ reqs[r].next_calls = 1
        /\ reqs[r].ctx_at_next = <<"a">>

\* C4: whenever the tool logic of a request has run, the token get_auth_token
\* returned to it is the token the Auth Gate published for that same request,
\* whatever other requests published before, between or after.
C4_TokenIsolation ==
    \A r \in Req :
        reqs[r].tool = "used" =>
            /\ reqs[r].set_calls = 1
            /\ reqs[r].observed = reqs[r].published

C4_Witness ==
    \E r1, r2 \in Req :
        /\ reqs[r1].tool = "used" /\ reqs[r2].tool = "used"
        /\ Truthy(reqs[r1].published) /\ Truthy(reqs[r2].published)
        /\ reqs[r1].published # reqs[r2].published
        /\ reqs[r1].pc = "downstream" /\ reqs[r2].pc = "downstream"

C6_DirectTokenUnmodified ==
    ~use_obo_flow =>
        \A r \in Req :
            /\ reqs[r].exchanger_calls = 0
            /\ (HasArrived(reqs[r]) /\ ~BypassKind(reqs[r]) /\ ~HeaderMissing(reqs[r])) =>
                   /\ reqs[r].set_calls = 1
                   /\ reqs[r].published =
                          extract_token_from_header(reqs[r].headers["authorization"])
                   /\ ctx[r] = reqs[r].published

C6_Witness ==
    \E r \in Req :
        /\ ~use_obo_flow
        /\ reqs[r].set_calls = 1
        /\ reqs[r].headers = WithAuthorization(HdrBearerA)
        /\ reqs[r].published = <<"a">>

\* the first seven characters of h spell "bearer " in some casing
AnyCaseBearer(h) ==
    /\ Len(h) >= 7
    /\ h[1] \in {"b", "B"} /\ h[2] \in {"e", "E"} /\ h[3] \in {"a", "A"}
    /\ h[4] \in {"r", "R"} /\ h[5] \in {"e", "E"} /\ h[6] \in {"r", "R"}
    /\ h[7] = " "

\* C7: extract_token_from_header returns the header value without its first
\* seven characters when, and only when, the value starts with "bearer " in
\* some casing, and the value itself otherwise; for a value made of a casing
\* of "bearer " followed by T it returns exactly T.
C7_ExtractStripsPrefix ==
    extracted # None =>
        /\ AnyCaseBearer(auth_header) =>
               /\ Len(extracted) = Len(auth_header) - 7
               /\ \A i \in 1..Len(extracted) : extracted[i] = auth_header[i + 7]
        /\ ~AnyCaseBearer(auth_header) => extracted = auth_header

C7_Witness ==
    /\ extracted = <<"a", "B">>
    /\ auth_header = <<"B", "e", "A", "r", "E", "R", " ", "a", "B">>

\* C8: a received request whose method is OPTIONS or whose path is the
\* liveness path has been handed to call_next, with or without an
\* Authorization header, and for it the gate has neither answered 401, nor
\* invoked the Token Exchanger, nor called set_auth_token, nor written its
\* Credential Context.
C8_BypassSkipsGate ==
    \A r \in Req :
        (HasArrived(reqs[r]) /\ BypassKind(reqs[r])) =>
            /\ reqs[r].next_calls = 1
            /\ reqs[r].exchanger_calls = 0
            /\ reqs[r].set_calls = 0
            /\ reqs[r].token = None
            /\ ctx[r] = None
            /\ ~IsError(reqs[r].response, 401, "unauthorized")

C8_Witness ==
    \E r1, r2 \in Req :
        /\ reqs[r1].method = "OPTIONS" /\ reqs[r1].path # "/health"
        /\ reqs[r1].headers = WithAuthorization(HdrBearerA)
        /\ reqs[r1].next_calls = 1
        /\ reqs[r2].method # "OPTIONS" /\ reqs[r2].path = "/health"
        /\ reqs[r2].headers = NoHeaders
        /\ reqs[r2].next_calls = 1
        /\ reqs[r2].pc = "done"

\* C9: no exception leaves the gate, and a request during which an exception
\* other than an exchange failure was raised (by call_next, on a bypassed
\* request or not, or by the introspection of the token) is answered 500 with
\* the body {"error": "server_error", "message": "Internal server error"}.
C9_FaultsBecomeServerError ==
    \A r \in Req :
        /\ ~reqs[r].escaped
        /\ reqs[r].fault # "" =>
               /\ reqs[r].pc = "done"
               /\ reqs[r].response =
                      [status_code |-> 500,
                       body |-> [error |-> "server_error", message |-> "Internal server error"]]

C9_Witness ==
    \E r1, r2 \in Req :
        /\ BypassKind(reqs[r1]) /\ reqs[r1].fault = "call_next"
        /\ ~BypassKind(reqs[r2]) /\ reqs[r2].fault # ""
        /\ reqs[r1].pc = "done" /\ reqs[r2].pc = "done"

\* C10: every request whose token exchange failed receives one and the same
\* response, status 401 with a fixed body, whatever the cause of the failure;
\* two such requests receive equal responses, and no field of the body is
\* the internal error text.
C10_UniformExchangeFailure ==
    /\ \A r \in Req :
           ExchangeFailed(reqs[r]) =>
               /\ reqs[r].response =
                      [status_code |-> 401,
                       body |-> [error |-> "unauthorized",
                                 message |-> "Unauthorized to get the required token to access the resource"]]
               /\ \A f \in DOMAIN reqs[r].response.body :
                      reqs[r].response.body[f] # reqs[r].exchange_error
    /\ \A r1, r2 \in Req :
           (ExchangeFailed(reqs[r1]) /\ ExchangeFailed(reqs[r2])) =>
               reqs[r1].response = reqs[r2].response

C10_Witness ==
    \E r1, r2 \in Req :
        /\ ExchangeFailed(reqs[r1]) /\ ExchangeFailed(reqs[r2])
        /\ reqs[r1].exchange_error # reqs[r2].exchange_error
        /\ reqs[r1].method = reqs[r2].method
        /\ reqs[r1].path = reqs[r2].path
        /\ reqs[r1].headers = reqs[r2].headers

(***************************************************************************)
(* auth_required_streamable_app: the middleware around the transport.      *)
(* Starlette's add_middleware puts the new class at the front of           *)
(* user_middleware, @app.middleware("http") is add_middleware of a         *)
(* BaseHTTPMiddleware around the decorated function, and the stack is      *)
(* built with user_middleware[1] outermost.                                *)
(***************************************************************************)
add_middleware(stack, cls) == <<cls>> \o stack

\* lines 92-98 and then line 101, on the application the transport returns
user_middleware == add_middleware(add_middleware(<<>>, "CORSMiddleware"), "check_auth")

\* who made the response a request was answered with: check_auth itself
\* (lines 118-120, 149-152, 176) or what call_next returned (lines 108, 112, 172)
ResponseProducer(req) ==
    IF req.next_calls = 0 \/ req.fault # "" THEN "check_auth" ELSE "app"

\* the layers a response travels through on its way out: those outside its producer
LayersPassed(req) ==
    LET at(cls) == CHOOSE i \in 1..Len(user_middleware) : user_middleware[i] = cls
        depth == IF ResponseProducer(req) = "app" THEN Len(user_middleware) + 1
                 ELSE at(ResponseProducer(req))
    IN  {user_middleware[i] : i \in 1..(depth - 1)}

(***************************************************************************)
(* C11: every response for the tool endpoint, the gate's own 401 and 500   *)
(* included, passes through the cross-origin layer (and so carries its     *)
(* headers).  Refuted: check_auth is registered after CORSMiddleware and   *)
(* is therefore the outer layer; what it returns itself never reaches      *)
(* CORSMiddleware.                                                         *)
(***************************************************************************)
C11_EveryResponseCrossOrigin ==
    \A r \in Req :
        (reqs[r].pc = "done" /\ reqs[r].path = "/mcp" /\ ~reqs[r].escaped)
            => "CORSMiddleware" \in LayersPassed(reqs[r])

(***************************************************************************)
(* The Connection Registry on its own: KustoConnectionManager.get called   *)
(* one call after another (the tools are synchronous functions), under     *)
(* the KUSTO_* settings the server was started with.  Each call is made by *)
(* a request of its own, whose Credential Context holds CallerToken.       *)
(***************************************************************************)
MaxCalls == 2

\* surrounding whitespace and a trailing slash around one cluster URI
UriVariants(core) ==
    {pre \o core \o slash \o post :
        pre \in {<<>>, <<" ">>}, slash \in {<<>>, <<"/">>}, post \in {<<>>, <<" ">>, <<"\n">>}}

ClusterK == <<"k">>
ClusterU == <<"u">>
ClusterM == <<"m">>

\* the URIs asked for: the variants of one cluster, two other clusters, and the
\* cluster's URI with two trailing slashes and with whitespace before the slash
RegistryUris ==
    UriVariants(ClusterK) \cup {ClusterU, ClusterM}
        \cup {ClusterK \o <<"/", "/">>, ClusterK \o <<" ", "/">>}

\* KUSTO_SERVICE_URI, KUSTO_SERVICE_DEFAULT_DB, KUSTO_KNOWN_SERVICES and
\* KUSTO_ALLOW_UNKNOWN_SERVICES as an administrator may set them
KustoEnvs ==
    [default_service_uri : {None, ClusterM},
     default_db : {None, <<"e">>},
     known_services : {<<>>,
                       <<KustoServiceConfig(ClusterK, <<"d">>)>>,
                       <<KustoServiceConfig(ClusterK \o <<"/">>, <<"d">>)>>,
                       <<KustoServiceConfig(<<" ">> \o ClusterK, <<"d">>)>>},
     allow_unknown_services : BOOLEAN]

CallerToken(i) == <<"t", ToString(i)>>

\* kusto_service.get_kusto_connection(uri), the i-th call; what it did is logged
Get(uri) ==
    /\ Len(get_log) < MaxCalls
    /\ LET got == KustoConnectionManager_get(cache, kusto_env, uri,
                                             CallerToken(Len(get_log) + 1))
       IN  /\ cache' = got.cache
           /\ get_log' = Append(get_log, [cluster_uri |-> uri, raised |-> got.raised,
                                          connection |-> got.connection,
                                          cache_before |-> cache, cache_after |-> got.cache])
    /\ UNCHANGED <<use_obo_flow, obo_config, reqs, ctx, kusto_env, extractVars, threads, exchanged, codec, sent>>

InitRegistry ==
    /\ use_obo_flow = FALSE
    /\ obo_config = DefaultOboConfig
    /\ kusto_env \in KustoEnvs
    /\ reqs = [r \in Req |-> NewRequest]
    /\ ctx = [r \in Req |-> None]
    /\ cache = <<>>
    /\ auth_header = <<>>
    /\ extracted = None
    /\ UnitsIdle

NextRegistry == \E uri \in RegistryUris : Get(uri)

SpecRegistry == InitRegistry /\ [][NextRegistry]_vars

(***************************************************************************)
(* C12: two calls of get whose URIs differ only by surrounding whitespace  *)
(* and a trailing slash return the identical Connection, and the cache     *)
(* holds a single entry for all such URIs: the calls with such URIs have   *)
(* added at most one key.                                                  *)
(***************************************************************************)
C12_VariantsShareOneConnection ==
    \A core \in {ClusterK, ClusterU, ClusterM} :
        LET calls == {i \in 1..Len(get_log) : get_log[i].cluster_uri \in UriVariants(core)}
        IN  /\ \A i, j \in calls :
                   (~get_log[i].raised /\ ~get_log[j].raised)
                       => get_log[i].connection = get_log[j].connection
            /\ Cardinality(UNION {DOMAIN get_log[i].cache_after \ DOMAIN get_log[i].cache_before :
                                     i \in calls}) <= 1

C12_Witness ==
    /\ Len(get_log) >= 2
    /\ get_log[1].cluster_uri = <<" ">> \o ClusterK \o <<"/", " ">>
    /\ get_log[2].cluster_uri = ClusterK
    /\ ~get_log[1].raised /\ ~get_log[2].raised
    /\ get_log[1].connection.created_under = CallerToken(1)
    /\ get_log[2].connection = get_log[1].connection
    /\ DOMAIN cache = {ClusterK}

\* the normalized URIs of the endpoints the settings name
KnownNormalized(env) == {sanitize_uri(u) : u \in DOMAIN get_known_services(env)}

\* a logged call that did not find its normalized URI in the cache
IsMiss(call) == sanitize_uri(call.cluster_uri) \notin DOMAIN call.cache_before

(***************************************************************************)
(* C13: a cache miss for a URI that is no known endpoint (its normalized    *)
(* form is neither the normalized URI of a configured endpoint nor a URI   *)
(* as configured): with unknown endpoints disallowed get raises, builds no *)
(* Connection and leaves the cache as it was; with them allowed get        *)
(* succeeds and the Connection's default database is the fallback one (the *)
(* default service's database when a default service is configured, the    *)
(* SDK's default name if not).                                             *)
(***************************************************************************)
C13_UnknownEndpointPolicy ==
    LET fallback == IF has_default_service(kusto_env) /\ kusto_env.default_db # None
                    THEN kusto_env.default_db ELSE DEFAULT_DATABASE_NAME
    IN  \A i \in 1..Len(get_log) :
            (/\ IsMiss(get_log[i])
             /\ sanitize_uri(get_log[i].cluster_uri) \notin KnownNormalized(kusto_env)
             /\ sanitize_uri(get_log[i].cluster_uri) \notin DOMAIN get_known_services(kusto_env))
                => IF kusto_env.allow_unknown_services
                   THEN /\ ~get_log[i].raised
                        /\ get_log[i].connection.default_database = fallback
                        /\ get_log[i].cache_after[sanitize_uri(get_log[i].cluster_uri)]
                               = get_log[i].connection
                   ELSE /\ get_log[i].raised
                        /\ get_log[i].connection = NoConnection
                        /\ get_log[i].cache_after = get_log[i].cache_before

\* a refused call, made when the cache already held a Connection
C13_Witness ==
    /\ ~kusto_env.allow_unknown_services
    /\ \E i \in 1..Len(get_log) :
           /\ get_log[i].cluster_uri = ClusterU
           /\ get_log[i].raised
           /\ get_log[i].cache_before # <<>>
           /\ get_log[i].cache_after = get_log[i].cache_before

(***************************************************************************)
(* C14: on a cache miss, a requested URI whose normalized form equals the  *)
(* normalized URI of a configured endpoint (one configured with a trailing *)
(* slash or surrounding whitespace included) is served even when unknown   *)
(* endpoints are disallowed, with that endpoint's configured default       *)
(* database.  Refuted: get_known_services keys each endpoint by its URI as *)
(* configured, and get looks the normalized URI up among those keys.       *)
(***************************************************************************)
C14_KnownEndpointMatchesNormalized ==
    LET known_services == get_known_services(kusto_env)
    IN  \A i \in 1..Len(get_log) :
            (/\ IsMiss(get_log[i])
             /\ sanitize_uri(get_log[i].cluster_uri) \in KnownNormalized(kusto_env))
                => /\ ~get_log[i].raised
                   /\ \E u \in DOMAIN known_services :
                          /\ sanitize_uri(u) = sanitize_uri(get_log[i].cluster_uri)
                          /\ get_log[i].connection.default_database
                                 = known_services[u].default_database

(***************************************************************************)
(* KustoConnectionManager.get called from several threads at once.  The    *)
(* class holds no lock; each step below is one access of the dict (atomic  *)
(* under the interpreter lock) or thread-local work, and the steps of      *)
(* different threads interleave freely.  Thread r's request publishes      *)
(* CallerToken(r).                                                         *)
(***************************************************************************)
IdleThread == [pc |-> "idle", cluster_uri |-> None, connection |-> NoConnection,
               result |-> NoConnection]

RaceUris == {ClusterK, ClusterK \o <<"/">>, <<" ">> \o ClusterK}

\* line 67 and the test of line 69
GetCheck(r, uri) ==
    /\ threads[r].pc = "idle"
    /\ threads' = [threads EXCEPT ![r] =
                      [@ EXCEPT !.cluster_uri = uri,
                                !.pc = IF sanitize_uri(uri) \in DOMAIN cache
                                       THEN "hit" ELSE "miss"]]
    /\ UNCHANGED <<cache, use_obo_flow, obo_config, reqs, ctx, kusto_env, extractVars, get_log, exchanged, codec, sent>>

\* line 70: return self._cache[sanitized_uri]
GetReturnCached(r) ==
    /\ threads[r].pc = "hit"
    /\ threads' = [threads EXCEPT ![r] =
                      [@ EXCEPT !.pc = "returned",
                                !.result = cache[sanitize_uri(threads[r].cluster_uri)]]]
    /\ UNCHANGED <<cache, use_obo_flow, obo_config, reqs, ctx, kusto_env, extractVars, get_log, exchanged, codec, sent>>

\* a slip: the key is entered in the cache before its Connection exists
GetConstructReserving(r) ==
    /\ threads[r].pc = "miss"
    /\ LET key == sanitize_uri(threads[r].cluster_uri)
           got == KustoConnectionManager_get(<<>>, kusto_env, threads[r].cluster_uri,
                                             CallerToken(r))
       IN  /\ threads' = [threads EXCEPT ![r] =
                             IF got.raised THEN [@ EXCEPT !.pc = "raised"]
                             ELSE [@ EXCEPT !.pc = "built", !.connection = got.connection]]
           /\ cache' = IF got.raised THEN cache
                       ELSE [u \in DOMAIN cache \cup {key} |->
                                IF u = key THEN NoConnection ELSE cache[u]]
    /\ UNCHANGED <<use_obo_flow, obo_config, reqs, ctx, kusto_env, extractVars, get_log, exchanged, codec, sent>>

\* lines 73-84: the path taken after the test of line 69 failed; the cache is
\* not read again, the new Connection is held in a local variable
GetConstruct(r) ==
    /\ threads[r].pc = "miss"
    /\ LET got == KustoConnectionManager_get(<<>>, kusto_env, threads[r].cluster_uri,
                                             CallerToken(r))
       IN  threads' = [threads EXCEPT ![r] =
                          IF got.raised THEN [@ EXCEPT !.pc = "raised"]
                          ELSE [@ EXCEPT !.pc = "built", !.connection = got.connection]]
    /\ UNCHANGED <<cache, use_obo_flow, obo_config, reqs, ctx, kusto_env, extractVars, get_log, exchanged, codec, sent>>

\* lines 85-86: self._cache[sanitized_uri] = connection; return connection
GetInsert(r) ==
    /\ threads[r].pc = "built"
    /\ LET key == sanitize_uri(threads[r].cluster_uri)
       IN  cache' = [u \in DOMAIN cache \cup {key} |->
                        IF u = key THEN threads[r].connection ELSE cache[u]]
    /\ threads' = [threads EXCEPT ![r] =
                      [@ EXCEPT !.pc = "returned", !.result = threads[r].connection]]
    /\ UNCHANGED <<use_obo_flow, obo_config, reqs, ctx, kusto_env, extractVars, get_log, exchanged, codec, sent>>

InitRace ==
    /\ use_obo_flow = FALSE
    /\ obo_config = DefaultOboConfig
    /\ kusto_env \in {env \in KustoEnvs : env.default_service_uri = None /\ env.default_db = None
                                          /\ Len(env.known_services) = 0}
                      \cup {env \in KustoEnvs : env.known_services
                                                    = <<KustoServiceConfig(ClusterK, <<"d">>)>>}
    /\ reqs = [r \in Req |-> NewRequest]
    /\ ctx = [r \in Req |-> CallerToken(r)]
    /\ cache = <<>>
    /\ auth_header = <<>>
    /\ extracted = None
    /\ get_log = <<>>
    /\ threads = [r \in Req |-> IdleThread]
    /\ exchanged = <<>>
    /\ codec = <<>>
    /\ sent = <<>>

NextRace ==
    \/ \E r \in Req, uri \in RaceUris : GetCheck(r, uri)
    \/ \E r \in Req : GetReturnCached(r)
    \/ \E r \in Req : GetConstruct(r)
    \/ \E r \in Req : GetInsert(r)

SpecRace == InitRace /\ [][NextRace]_vars

\* a Connection whose constructor has run, for the cluster named by key
FullyConstructed(connection, key) ==
    /\ connection # NoConnection
    /\ connection.cluster_uri = key
    /\ connection.default_database # None
    /\ Len(connection.default_database) > 0

(***************************************************************************)
(* C15: however concurrent get() calls for one uncached URI interleave,    *)
(* every caller that returns holds a fully constructed Connection, the     *)
(* cache never shows anything else, and once all calls have returned the   *)
(* cache maps the normalized URI to a fully constructed Connection.        *)
(***************************************************************************)
C15_RacingGetsStayWellFormed ==
    /\ \A key \in DOMAIN cache : FullyConstructed(cache[key], key)
    /\ \A r \in DOMAIN threads :
           threads[r].pc = "returned"
               => FullyConstructed(threads[r].result, sanitize_uri(threads[r].cluster_uri))
    /\ (threads # <<>> /\ \A r \in DOMAIN threads : threads[r].pc = "returned")
           => \A r \in DOMAIN threads : sanitize_uri(threads[r].cluster_uri) \in DOMAIN cache

\* the race happened: two callers missed together, each built a Connection, both
\* have returned, and the cache holds the one inserted last
C15_Witness ==
    /\ \A r \in DOMAIN threads : threads[r].pc = "returned"
    /\ \E r, q \in DOMAIN threads :
           /\ threads[r].result.created_under = CallerToken(r)
           /\ threads[q].result.created_under = CallerToken(q)
           /\ r # q
           /\ cache[ClusterK] = threads[q].result

(***************************************************************************)
(* The Token Exchanger on its own: a TokenOboExchanger built from any      *)
(* on-behalf-of settings, perform_obo_token_exchange called with a         *)
(* caller's token while the identity services behave as env says.          *)
(***************************************************************************)
UserTokens == {<<"a">>, <<"b">>, <<"h", ".", "e", "3", "0", ".", "s">>}

\* await token_exchanger.perform_obo_token_exchange(user_token, resource_uri)
Exchange(user_token, env) ==
    /\ exchanged' = [user_token |-> user_token, env |-> env,
                     out |-> perform_obo_token_exchange(obo_config, user_token, env)]
    /\ UNCHANGED <<gateVars, extractVars, get_log, threads, codec, sent>>

InitExchange ==
    /\ use_obo_flow = TRUE
    /\ obo_config \in OboConfigs
    /\ kusto_env = DefaultKustoEnv
    /\ reqs = [r \in Req |-> NewRequest]
    /\ ctx = [r \in Req |-> None]
    /\ cache = <<>>
    /\ auth_header = <<>>
    /\ extracted = None
    /\ UnitsIdle

NextExchange == \E user_token \in UserTokens, env \in IdentityEnvs : Exchange(user_token, env)

SpecExchange == InitExchange /\ [][NextExchange]_vars

\* the settings of lines 44-63 that cfg leaves empty
MissingSettings(cfg) ==
    {s \in {"entra_app_client_id", "azure_tenant_id", "umi_client_id"} : cfg[s] = ""}

(***************************************************************************)
(* C16: when the client id, the tenant id or the managed identity's client *)
(* id is absent, perform_obo_token_exchange raises a configuration error   *)
(* (ValueError) before calling the managed identity or the provider, and   *)
(* the message differs from the one any other missing setting gives.       *)
(***************************************************************************)
C16_ConfigurationCheckedFirst ==
    (exchanged # <<>> /\ MissingSettings(obo_config) # {})
        => /\ exchanged.out.raised
           /\ exchanged.out.type = "ValueError"
           /\ exchanged.out.calls = <<>>
           /\ \A other \in OboConfigs :
                  (/\ Cardinality(MissingSettings(other)) = 1
                   /\ MissingSettings(other) \cap MissingSettings(obo_config) = {})
                      => perform_obo_token_exchange(other, exchanged.user_token,
                                                    exchanged.env).message
                             # exchanged.out.message

\* only the managed identity's client id is missing, and the services would have
\* handed out a token
C16_Witness ==
    /\ exchanged # <<>>
    /\ MissingSettings(obo_config) = {"umi_client_id"}
    /\ "access_token" \in DOMAIN exchanged.env.result
    /\ exchanged.out.raised
    /\ exchanged.out.calls = <<>>

(***************************************************************************)
(* C17: every failure of perform_obo_token_exchange, whatever its cause    *)
(* and under whatever settings, is an error of one and the same kind.      *)
(* Refuted: the three configuration checks raise ValueError outside the    *)
(* try block, every other failure is re-raised by line 107 as Exception.   *)
(***************************************************************************)
C17_OneFailureCategory ==
    (exchanged # <<>> /\ exchanged.out.raised)
        => \A other \in OboConfigs, env \in IdentityEnvs :
               LET e == perform_obo_token_exchange(other, exchanged.user_token, env)
               IN  e.raised => e.type = exchanged.out.type

(***************************************************************************)
(* C18: with the settings present the managed identity is asked first and  *)
(* then the provider, with the caller's token as user assertion; a token   *)
(* is returned only when the provider's result holds access_token, and is  *)
(* that very value; a result without it raises an exchange failure whose   *)
(* text carries error_description, else error, else "Unknown error".       *)
(***************************************************************************)
C18_ExchangeProcedure ==
    (exchanged # <<>> /\ MissingSettings(obo_config) = {})
        => LET env == exchanged.env
               out == exchanged.out
               answered == ~env.mi_raises /\ ~env.obo_raises
               carried == IF "error_description" \in DOMAIN env.result
                          THEN env.result.error_description
                          ELSE IF "error" \in DOMAIN env.result THEN env.result.error
                          ELSE "Unknown error"
           IN  /\ out.calls = IF env.mi_raises THEN <<"managed_identity">>
                              ELSE <<"managed_identity", "on_behalf_of">>
               /\ ~env.mi_raises => out.user_assertion = exchanged.user_token
               /\ ~out.raised <=> (answered /\ "access_token" \in DOMAIN env.result)
               /\ ~out.raised => out.value = env.result.access_token
               /\ (answered /\ "access_token" \notin DOMAIN env.result)
                      => /\ out.type = "Exception"
                         /\ out.message = "OBO token exchange failed: "
                                \o "TokenOboExchanger: Failed to acquire token: " \o carried

\* the provider answered with an error code and a description
C18_Witness ==
    /\ exchanged # <<>>
    /\ MissingSettings(obo_config) = {}
    /\ DOMAIN exchanged.env.result = {"error", "error_description"}
    /\ exchanged.out.raised
    /\ exchanged.out.calls = <<"managed_identity", "on_behalf_of">>
    /\ exchanged.out.user_assertion = exchanged.user_token

(***************************************************************************)
(* kusto_formatter.py: the Result Codec.                                   *)
(*                                                                         *)
(* A Python value is [t, s]: t is its type and s its content.  A cell is a *)
(* str (s its characters), an int (s its decimal digits, which is what     *)
(* str(value) gives) or None; a payload is a str, a list (s its items) or  *)
(* a dict (s a function from keys to values).  A result set is             *)
(* [primary_results], a sequence of tables [columns, rows]; column names   *)
(* are unique in a table.  A canonical row is a function from column       *)
(* names to cells; a result set of None is NoResultSet.                    *)
(***************************************************************************)
PyNone == [t |-> "null", s |-> <<>>]

PyStr(chars) == [t |-> "str", s |-> chars]

PyInt(digits) == [t |-> "int", s |-> digits]

PyList(items) == [t |-> "list", s |-> items]

\* keys is the dict's key order
PyDict(keys, d) == [t |-> "dict", s |-> d, keys |-> keys]

KustoResponseFormat(format, data) == [format |-> format, data |-> data]

\* result_set is None
NoResultSet == [absent |-> TRUE]

\* not result_set or not getattr(result_set, "primary_results", None)
no_primary_results(result_set) ==
    result_set = NoResultSet \/ Len(result_set.primary_results) = 0

\* sep.join(parts)
RECURSIVE join(_, _)
join(sep, parts) ==
    IF Len(parts) = 0 THEN <<>>
    ELSE IF Len(parts) = 1 THEN parts[1]
    ELSE parts[1] \o sep \o join(sep, Tail(parts))

\* str.replace(old, new): the non-overlapping occurrences, from the left
RECURSIVE str_replace(_, _, _)
str_replace(s, old, new) ==
    IF Len(s) < Len(old) THEN s
    ELSE IF SubSeq(s, 1, Len(old)) = old
         THEN new \o str_replace(SubSeq(s, Len(old) + 1, Len(s)), old, new)
         ELSE <<s[1]>> \o str_replace(Tail(s), old, new)

\* dict(zip(column_names, row)); of two equal names the later one's value stays
dict_zip(column_names, row) ==
    [name \in {column_names[i] : i \in 1..Len(column_names)} |->
        row[CHOOSE i \in 1..Len(column_names) :
                /\ column_names[i] = name
                /\ \A j \in (i + 1)..Len(column_names) : column_names[j] # name]]

\* lines 19-27
to_json(result_set) ==
    IF no_primary_results(result_set) THEN KustoResponseFormat("json", PyList(<<>>))
    ELSE LET first_result == result_set.primary_results[1]
         IN  KustoResponseFormat("json",
                 PyList([i \in 1..Len(first_result.rows) |->
                            dict_zip(first_result.columns, first_result.rows[i])]))

\* csv.writer(output, quoting=csv.QUOTE_MINIMAL).writerow(row), row a sequence of
\* texts: a field holding the delimiter, the quote character or a character of
\* the line terminator is quoted with its quotes doubled; a row that is one
\* empty field is written as a pair of quotes; the line ends with "\r\n"
csv_writerow(row) ==
    LET special(c) == c \in {",", "\"", "\r", "\n"}
        field(s) == IF \E i \in 1..Len(s) : special(s[i])
                    THEN <<"\"">> \o str_replace(s, <<"\"">>, <<"\"", "\"">>) \o <<"\"">>
                    ELSE s
        record == join(<<",">>, [i \in 1..Len(row) |-> field(row[i])])
    IN  (IF Len(row) > 0 /\ Len(record) = 0 THEN <<"\"", "\"">> ELSE record) \o <<"\r", "\n">>

\* lines 29-50
to_csv(result_set) ==
    IF no_primary_results(result_set) THEN KustoResponseFormat("csv", PyStr(<<>>))
    ELSE LET first_result == result_set.primary_results[1]
             formatted_row(row) == [i \in 1..Len(row) |-> row[i].s]
         IN  KustoResponseFormat("csv",
                 PyStr(csv_writerow(first_result.columns)
                           \o join(<<>>, [i \in 1..Len(first_result.rows) |->
                                   csv_writerow(formatted_row(first_result.rows[i]))])))

\* lines 52-82
to_tsv(result_set) ==
    IF no_primary_results(result_set) THEN KustoResponseFormat("tsv", PyStr(<<>>))
    ELSE LET first_result == result_set.primary_results[1]
             escaped(value) ==
                 IF value = PyNone THEN <<>>
                 ELSE str_replace(str_replace(str_replace(str_replace(value.s,
                          <<"\\">>, <<"\\", "\\">>),
                          <<"\t">>, <<"\\", "t">>),
                          <<"\n">>, <<"\\", "n">>),
                          <<"\r">>, <<"\\", "r">>)
             line(row) == join(<<"\t">>, [i \in 1..Len(row) |-> escaped(row[i])])
             lines == <<join(<<"\t">>, first_result.columns)>>
                          \o [i \in 1..Len(first_result.rows) |-> line(first_result.rows[i])]
         IN  KustoResponseFormat("tsv", PyStr(join(<<"\n">>, lines)))

\* lines 84-104: a dict from column name to the column's values
to_columnar(result_set) ==
    IF no_primary_results(result_set) THEN KustoResponseFormat("columnar", PyDict(<<>>, <<>>))
    ELSE LET first_result == result_set.primary_results[1]
             columns == first_result.columns
         IN  KustoResponseFormat("columnar",
                 PyDict(columns,
                        [name \in {columns[i] : i \in 1..Len(columns)} |->
                            [r \in 1..Len(first_result.rows) |->
                                first_result.rows[r][CHOOSE i \in 1..Len(columns) :
                                                         columns[i] = name]]]))

\* json.dumps(row_list, separators=(",", ":")) of a list of cell values
json_dumps(row_list) ==
    LET esc(c) == CASE c = "\"" -> <<"\\", "\"">> [] c = "\\" -> <<"\\", "\\">>
                    [] c = "\n" -> <<"\\", "n">> [] c = "\r" -> <<"\\", "r">>
                    [] c = "\t" -> <<"\\", "t">> [] OTHER -> <<c>>
        text(s) == <<"\"">> \o join(<<>>, [i \in 1..Len(s) |-> esc(s[i])]) \o <<"\"">>
        item(v) == CASE v.t = "null" -> <<"n", "u", "l", "l">>
                     [] v.t = "int" -> v.s
                     [] OTHER -> text(v.s)
    IN  <<"[">> \o join(<<",">>, [i \in 1..Len(row_list) |-> item(row_list[i])]) \o <<"]">>

\* lines 106-123
to_header_arrays(result_set) ==
    IF no_primary_results(result_set) THEN KustoResponseFormat("header_arrays", PyList(<<>>))
    ELSE LET first_result == result_set.primary_results[1]
             columns == [i \in 1..Len(first_result.columns) |-> PyStr(first_result.columns[i])]
             lines == <<json_dumps(columns)>>
                          \o [i \in 1..Len(first_result.rows) |-> json_dumps(first_result.rows[i])]
         IN  KustoResponseFormat("header_arrays", PyStr(join(<<"\n">>, lines)))

\* what a parser hands back: a value, or the exception that leaves it
Parsed(value) == [raised |-> FALSE, type |-> "", message |-> "", value |-> value]

ParseRaises(type, message) ==
    [raised |-> TRUE, type |-> type, message |-> message, value |-> PyNone]

\* lines 165-170
parse_json(data) ==
    IF data.t \notin {"list", "dict"} THEN ParseRaises("ValueError", "Invalid JSON format")
    ELSE Parsed(data)

\* one character c given to csv.reader's parser (excel dialect, not strict);
\* "EOL" stands for the end of a line of input.  rd is the parser: state,
\* the field and the record being read, the records completed, error
csv_process_char(rd, c) ==
    LET eol == c = "EOL"
        newline == c \in {"\n", "\r"}
        save == Append(rd.fields, rd.field)
        add == [rd EXCEPT !.field = Append(@, c)]
        end_record(fields) ==
            IF eol THEN [rd EXCEPT !.state = "START_RECORD", !.field = <<>>, !.fields = <<>>,
                                   !.rows = Append(@, fields)]
            ELSE [rd EXCEPT !.state = "EAT_CRNL", !.field = <<>>, !.fields = fields]
        next_field == [rd EXCEPT !.state = "START_FIELD", !.field = <<>>, !.fields = save]
    IN  IF rd.error THEN rd
        ELSE CASE rd.state = "START_RECORD" /\ eol -> [rd EXCEPT !.rows = Append(@, <<>>)]
               [] rd.state = "START_RECORD" /\ newline -> [rd EXCEPT !.state = "EAT_CRNL"]
               [] rd.state \in {"START_RECORD", "START_FIELD"} /\ ~eol /\ ~newline ->
                      IF c = "\"" THEN [rd EXCEPT !.state = "IN_QUOTED_FIELD"]
                      ELSE IF c = "," THEN next_field
                      ELSE [add EXCEPT !.state = "IN_FIELD"]
               [] rd.state = "START_FIELD" /\ (eol \/ newline) -> end_record(save)
               [] rd.state = "IN_FIELD" ->
                      IF eol \/ newline THEN end_record(save)
                      ELSE IF c = "," THEN next_field
                      ELSE add
               [] rd.state = "IN_QUOTED_FIELD" ->
                      IF eol THEN rd
                      ELSE IF c = "\"" THEN [rd EXCEPT !.state = "QUOTE_IN_QUOTED_FIELD"]
                      ELSE add
               [] rd.state = "QUOTE_IN_QUOTED_FIELD" ->
                      IF c = "\"" THEN [add EXCEPT !.state = "IN_QUOTED_FIELD"]
                      ELSE IF c = "," THEN next_field
                      ELSE IF eol \/ newline THEN end_record(save)
                      ELSE [add EXCEPT !.state = "IN_FIELD"]
               [] rd.state = "EAT_CRNL" ->
                      IF newline THEN rd
                      ELSE IF eol THEN [rd EXCEPT !.state = "START_RECORD", !.fields = <<>>,
                                                  !.rows = Append(@, rd.fields)]
                      ELSE [rd EXCEPT !.error = TRUE]

\* list(csv.reader(io.StringIO(data))), from position i with the parser rd: the
\* input is read line by line, a line ending after each "\n" and at the end of
\* the text; input that ends inside a record completes that record
RECURSIVE csv_read(_, _, _)
csv_read(data, i, rd) ==
    IF i > Len(data)
    THEN IF rd.error THEN rd
         ELSE IF Len(rd.field) # 0 \/ rd.state = "IN_QUOTED_FIELD"
         THEN [rd EXCEPT !.rows = Append(@, Append(rd.fields, rd.field))]
         ELSE rd
    ELSE LET after == csv_process_char(rd, data[i])
         IN  csv_read(data, i + 1,
                      IF data[i] = "\n" \/ i = Len(data) THEN csv_process_char(after, "EOL")
                      ELSE after)

\* lines 172-206
parse_csv(data) ==
    IF data = PyStr(<<>>) THEN Parsed(PyList(<<>>))
    ELSE IF data.t # "str" THEN ParseRaises("ValueError", "Invalid CSV format")
    ELSE LET read == csv_read(data.s, 1, [state |-> "START_RECORD", field |-> <<>>,
                                          fields |-> <<>>, rows |-> <<>>, error |-> FALSE])
             rows == read.rows
             text_or_none(value) == IF value = <<>> THEN PyNone ELSE PyStr(value)
             headers == rows[1]
             row_dict(row) ==
                 dict_zip(headers, [i \in 1..Len(headers) |->
                                       text_or_none(IF i <= Len(row) THEN row[i] ELSE <<>>)])
         IN  IF read.error THEN ParseRaises("csv.Error", "new-line character seen in unquoted field")
             ELSE IF Len(rows) < 1 THEN Parsed(PyList(<<>>))
             ELSE Parsed(PyList([k \in 1..(Len(rows) - 1) |-> row_dict(rows[k + 1])]))

\* lines 208-244
parse_tsv(data) ==
    IF data = PyStr(<<>>) THEN Parsed(PyList(<<>>))
    ELSE IF data.t # "str" THEN ParseRaises("ValueError", "Invalid TSV format")
    ELSE LET lines == split(strip(data.s), "\n")
             headers == split(lines[1], "\t")
             text_or_none(value) == IF value = <<>> THEN PyNone ELSE PyStr(value)
             unescaped(value) ==
                 IF value = <<>> THEN value
                 ELSE str_replace(str_replace(str_replace(str_replace(value,
                          <<"\\", "t">>, <<"\t">>),
                          <<"\\", "n">>, <<"\n">>),
                          <<"\\", "r">>, <<"\r">>),
                          <<"\\", "\\">>, <<"\\">>)
             row_dict(line) ==
                 LET values == split(line, "\t")
                 IN  dict_zip(headers,
                              [i \in 1..Len(headers) |->
                                  text_or_none(unescaped(IF i <= Len(values) THEN values[i]
                                                         ELSE <<>>))])
         IN  Parsed(PyList([k \in 1..(Len(lines) - 1) |-> row_dict(lines[k + 1])]))

\* _parse_columnar without the padding: rows only as far as every column reaches
parse_columnar_unpadded(data) ==
    IF data.t # "dict" THEN ParseRaises("ValueError", "Invalid columnar format")
    ELSE LET columns == data.keys
             lengths == {Len(data.s[name]) : name \in DOMAIN data.s}
             row_count == CHOOSE n \in lengths : \A m \in lengths : n <= m
         IN  IF Len(columns) = 0 THEN Parsed(PyList(<<>>))
             ELSE Parsed(PyList([row_idx \in 1..row_count |->
                                    [col_name \in DOMAIN data.s |-> data.s[col_name][row_idx]]]))

\* lines 246-269
parse_columnar(data) ==
    IF data.t # "dict" THEN ParseRaises("ValueError", "Invalid columnar format")
    ELSE LET columns == data.keys
             row_count == Len(data.s[columns[1]])
             cell(col_name, row_idx) ==
                 IF row_idx <= Len(data.s[col_name]) THEN data.s[col_name][row_idx] ELSE PyNone
         IN  IF Len(columns) = 0 THEN Parsed(PyList(<<>>))
             ELSE Parsed(PyList([row_idx \in 1..row_count |->
                                    [col_name \in DOMAIN data.s |-> cell(col_name, row_idx)]]))

\* the JSON string that starts after the quote at position i - 1 of text:
\* [ok, chars, next], next the position after the closing quote.  Of the
\* escapes, those json.dumps writes for the model's characters are read
RECURSIVE json_string(_, _, _)
json_string(text, i, acc) ==
    IF i > Len(text) THEN [ok |-> FALSE, chars |-> acc, next |-> i]
    ELSE IF text[i] = "\"" THEN [ok |-> TRUE, chars |-> acc, next |-> i + 1]
    ELSE IF text[i] \in {"\n", "\r", "\t"} THEN [ok |-> FALSE, chars |-> acc, next |-> i]
    ELSE IF text[i] = "\\"
    THEN IF i + 1 > Len(text) \/ text[i + 1] \notin {"\"", "\\", "n", "r", "t"}
         THEN [ok |-> FALSE, chars |-> acc, next |-> i]
         ELSE json_string(text, i + 2,
                          Append(acc, CASE text[i + 1] = "n" -> "\n" [] text[i + 1] = "r" -> "\r"
                                        [] text[i + 1] = "t" -> "\t" [] OTHER -> text[i + 1]))
    ELSE json_string(text, i + 1, Append(acc, text[i]))

\* the scalar that starts at position i of text: [ok, value, next]
json_scalar(text, i) ==
    LET is_digit(c) == c \in {"0", "1", "2", "3", "4", "5", "6", "7", "8", "9"}
        digits == CHOOSE n \in 0..Len(text) :
                      /\ \A k \in i..(i + n - 1) : k <= Len(text) /\ is_digit(text[k])
                      /\ (i + n > Len(text) \/ ~is_digit(text[i + n]))
        str == json_string(text, i + 1, <<>>)
    IN  IF i > Len(text) THEN [ok |-> FALSE, value |-> PyNone, next |-> i]
        ELSE IF text[i] = "\"" THEN [ok |-> str.ok, value |-> PyStr(str.chars), next |-> str.next]
        ELSE IF i + 3 <= Len(text) /\ SubSeq(text, i, i + 3) = <<"n", "u", "l", "l">>
        THEN [ok |-> TRUE, value |-> PyNone, next |-> i + 4]
        ELSE IF digits > 0 /\ (digits = 1 \/ text[i] # "0")
        THEN [ok |-> TRUE, value |-> PyInt(SubSeq(text, i, i + digits - 1)), next |-> i + digits]
        ELSE [ok |-> FALSE, value |-> PyNone, next |-> i]

\* the items of a JSON array from position i of text, after "[" or ","
RECURSIVE json_array(_, _, _)
json_array(text, i, acc) ==
    LET item == json_scalar(text, i)
    IN  IF ~item.ok \/ item.next > Len(text) THEN [kind |-> "error", items |-> <<>>]
        ELSE IF text[item.next] = "]"
        THEN IF item.next = Len(text) THEN [kind |-> "list", items |-> Append(acc, item.value)]
             ELSE [kind |-> "error", items |-> <<>>]
        ELSE IF text[item.next] = ","
        THEN json_array(text, item.next + 1, Append(acc, item.value))
        ELSE [kind |-> "error", items |-> <<>>]

\* json.loads(line) on the documents the model's lines can be: an array of
\* scalars ("list"), a lone scalar or an empty object ("other"); anything
\* else raises JSONDecodeError ("error")
json_loads_line(line) ==
    LET text == strip(line)
        lone == json_scalar(text, 1)
    IN  IF text = <<"[", "]">> THEN [kind |-> "list", items |-> <<>>]
        ELSE IF Len(text) > 0 /\ text[1] = "[" THEN json_array(text, 2, <<>>)
        ELSE IF text = <<"{", "}">> \/ (lone.ok /\ lone.next = Len(text) + 1)
        THEN [kind |-> "other", items |-> <<>>]
        ELSE [kind |-> "error", items |-> <<>>]

\* lines 271-303; a column name is a str, the dict's key is its text
parse_header_arrays(data) ==
    IF data.t # "str" THEN ParseRaises("ValueError", "Invalid header_arrays format")
    ELSE LET lines == split(strip(data.s), "\n")
             loaded == [k \in 1..Len(lines) |-> json_loads_line(lines[k])]
             headers == [i \in 1..Len(loaded[1].items) |-> loaded[1].items[i].s]
             listed == SelectSeq([k \in 1..(Len(lines) - 1) |-> loaded[k + 1]],
                                 LAMBDA l : l.kind = "list")
             row_dict(row_values) ==
                 dict_zip(headers, [i \in 1..Len(headers) |->
                                       IF i <= Len(row_values) THEN row_values[i] ELSE PyNone])
         IN  IF loaded[1].kind # "list" THEN Parsed(PyList(<<>>))
             ELSE IF \E k \in 2..Len(lines) : loaded[k].kind = "error"
             THEN Parsed(PyList(<<>>))
             ELSE Parsed(PyList([k \in 1..Len(listed) |-> row_dict(listed[k].items)]))

\* lines 125-163, for a KustoResponseFormat or a dict with "format" and "data"
parse(response) ==
    IF response.data = PyNone THEN Parsed(PyNone)
    ELSE CASE response.format = "json" -> parse_json(response.data)
           [] response.format = "csv" -> parse_csv(response.data)
           [] response.format = "tsv" -> parse_tsv(response.data)
           [] response.format = "columnar" -> parse_columnar(response.data)
           [] response.format = "header_arrays" -> parse_header_arrays(response.data)
           [] OTHER -> ParseRaises("ValueError", "Unsupported format: " \o response.format)

(***************************************************************************)
(* The Result Codec on its own: a query returns a result set, one of the   *)
(* to_* functions encodes it and KustoFormatter.parse decodes the payload. *)
(* Tables have the first one or two of Columns and up to MaxRows rows;     *)
(* their cells are None or "x", and at most one cell holds another value.  *)
(***************************************************************************)
MaxRows == 2

Columns == <<<<"a">>, <<"b">>>>

Tables ==
    LET others == {PyStr(<<>>), PyStr(<<" ">>), PyInt(<<"1">>), PyStr(<<",">>), PyStr(<<"\"">>),
                   PyStr(<<"\n">>), PyStr(<<"\t">>), PyStr(<<"\\", "t">>)}
        plain(c, r) == [1..r -> [1..c -> {PyNone, PyStr(<<"x">>)}]]
        rows(c, r) == plain(c, r)
                          \cup {[p EXCEPT ![i][j] = v] :
                                   p \in plain(c, r), i \in 1..r, j \in 1..c, v \in others}
    IN  UNION {{[columns |-> SubSeq(Columns, 1, c), rows |-> rs] : rs \in rows(c, r)} :
                  c \in 1..Len(Columns), r \in 0..MaxRows}

ResultSets ==
    {NoResultSet, [primary_results |-> <<>>]} \cup {[primary_results |-> <<tb>>] : tb \in Tables}

Formats == {"json", "csv", "tsv", "columnar", "header_arrays"}

\* the payloads a caller may send.  header_arrays: a header line, then up to
\* MaxRows data lines ("{" is not JSON, "1" is JSON but not an array);
\* columnar: columns of up to MaxRows values each; and every format tag,
\* "xml" (no parser has it) and "" (a dict without "format") among them, with
\* data of each type
Payloads ==
    LET header_lines == {<<"[", "\"", "a", "\"", "]">>, <<"1">>, <<"{">>}
        data_lines == {<<"[", "\"", "x", "\"", "]">>, <<"[", "\"", "y", "\"", "]">>,
                       <<"1">>, <<"{">>}
        column == UNION {[1..n -> {PyNone, PyStr(<<"x">>)}] : n \in 0..MaxRows}
        names(c) == {Columns[i] : i \in 1..c}
        columnar == UNION {{PyDict(SubSeq(Columns, 1, c), d) : d \in [names(c) -> column]} :
                              c \in 0..Len(Columns)}
    IN  {KustoResponseFormat("header_arrays", PyStr(join(<<"\n">>, <<header>> \o lines))) :
            header \in header_lines, lines \in UNION {[1..n -> data_lines] : n \in 0..MaxRows}}
            \cup {KustoResponseFormat("columnar", data) : data \in columnar}
            \cup {KustoResponseFormat(format, data) :
                      format \in Formats \cup {"xml", ""},
                      data \in {PyNone, PyStr(<<>>), PyStr(<<"x">>), PyList(<<>>),
                                PyDict(<<>>, <<>>)}}

\* kusto_service._execute: the query's response arrives
Execute(result_set) ==
    /\ codec = <<>>
    /\ codec' = [stage |-> "result", result_set |-> result_set, received |-> FALSE,
                 response |-> KustoResponseFormat("", PyNone), parsed |-> Parsed(PyNone)]
    /\ UNCHANGED <<gateVars, extractVars, get_log, threads, exchanged, sent>>

\* KustoFormatter.to_json, to_csv, to_tsv, to_columnar or to_header_arrays
Encode(format) ==
    /\ codec # <<>>
    /\ codec.stage = "result"
    /\ codec' = [codec EXCEPT
                     !.stage = "encoded",
                     !.response = CASE format = "json" -> to_json(codec.result_set)
                                    [] format = "csv" -> to_csv(codec.result_set)
                                    [] format = "tsv" -> to_tsv(codec.result_set)
                                    [] format = "columnar" -> to_columnar(codec.result_set)
                                    [] format = "header_arrays" ->
                                           to_header_arrays(codec.result_set)]
    /\ UNCHANGED <<gateVars, extractVars, get_log, threads, exchanged, sent>>

\* a caller hands parse a payload of its own: a dict with "format" and "data"
\* (a missing "format" is read as "", a missing "data" as None)
Receive(response) ==
    /\ codec = <<>>
    /\ codec' = [stage |-> "encoded", result_set |-> NoResultSet, received |-> TRUE,
                 response |-> response, parsed |-> Parsed(PyNone)]
    /\ UNCHANGED <<gateVars, extractVars, get_log, threads, exchanged, sent>>

\* KustoFormatter.parse(response)
Parse ==
    /\ codec # <<>>
    /\ codec.stage = "encoded"
    /\ codec' = [codec EXCEPT !.stage = "parsed", !.parsed = parse(codec.response)]
    /\ UNCHANGED <<gateVars, extractVars, get_log, threads, exchanged, sent>>

InitCodec ==
    /\ use_obo_flow = FALSE
    /\ obo_config = DefaultOboConfig
    /\ kusto_env = DefaultKustoEnv
    /\ reqs = [r \in Req |-> NewRequest]
    /\ ctx = [r \in Req |-> None]
    /\ cache = <<>>
    /\ auth_header = <<>>
    /\ extracted = None
    /\ UnitsIdle

NextCodec ==
    \/ \E result_set \in ResultSets : Execute(result_set)
    \/ \E format \in Formats : Encode(format)
    \/ \E response \in Payloads : Receive(response)
    \/ Parse

SpecCodec == InitCodec /\ [][NextCodec]_vars

\* the table a result set was encoded from, and its cells
FirstResult == codec.result_set.primary_results[1]

CellsOf(table) == {table.rows[i][j] : i \in 1..Len(table.rows), j \in 1..Len(table.columns)}

\* the characters a format gives a meaning to
ControlChars(format) ==
    CASE format = "csv" -> {",", "\"", "\n", "\r"}
      [] format = "tsv" -> {"\t", "\n", "\r", "\\"}
      [] format = "header_arrays" -> {"\"", "\\", "\n", "\r", "\t"}
      [] OTHER -> {}

\* the canonical rows of the table: the list of dicts to_json builds
CanonicalRows == to_json(codec.result_set).data

HasParsedTable ==
    /\ codec # <<>>
    /\ codec.stage = "parsed"
    /\ ~codec.received
    /\ ~no_primary_results(codec.result_set)

(***************************************************************************)
(* C19: in each of the five formats, a result with at least one row, no    *)
(* null and no value holding one of the format's control characters comes  *)
(* back from parse(encode(R)) as R: the same rows in the same order, the   *)
(* same column names, the same values.  Refuted for csv and tsv: to_csv    *)
(* and to_tsv write str(value) and the parsers return every cell as a str, *)
(* and read an empty text back as None.                                    *)
(***************************************************************************)
C19_RoundTripExact ==
    (/\ HasParsedTable
     /\ Len(FirstResult.rows) >= 1
     /\ \A v \in CellsOf(FirstResult) :
            /\ v # PyNone
            /\ \A i \in 1..Len(v.s) : v.s[i] \notin ControlChars(codec.response.format))
        => /\ ~codec.parsed.raised
           /\ codec.parsed.value = CanonicalRows

\* a cell of the original and the cell parse returned for it agree, where None
\* and the empty text stand for each other
SameUpToNull(original, returned) ==
    \/ original = returned
    \/ {original, returned} \subseteq {PyNone, PyStr(<<>>)}

(***************************************************************************)
(* C20: in every format, parse(encode(R)) has as many rows as R, in R's    *)
(* order, each cell equal to the original one except that None and the     *)
(* empty text may stand for each other; a row of nulls is not dropped.     *)
(* Refuted: _parse_tsv strips the payload before splitting it into lines,  *)
(* which removes the line of a last row whose cells are all None; and csv  *)
(* and tsv return every other cell as a str.                               *)
(***************************************************************************)
C20_RoundTripUpToNull ==
    HasParsedTable
        => /\ ~codec.parsed.raised
           /\ Len(codec.parsed.value.s) = Len(FirstResult.rows)
           /\ \A i \in 1..Len(FirstResult.rows) :
                  /\ DOMAIN codec.parsed.value.s[i] = DOMAIN CanonicalRows.s[i]
                  /\ \A name \in DOMAIN CanonicalRows.s[i] :
                         SameUpToNull(CanonicalRows.s[i][name], codec.parsed.value.s[i][name])

(***************************************************************************)
(* C21: for csv and tsv, a cell that is a non-empty text of ordinary       *)
(* characters and the format's special characters (csv: comma, quote,      *)
(* newline; tsv: backslash, tab, newline, carriage return) comes back from *)
(* parse(encode(R)) as exactly that text.  Refuted for tsv: _parse_tsv     *)
(* replaces backslash-t before it replaces the doubled backslash, so the   *)
(* text backslash, t (written as backslash, backslash, t) is read as       *)
(* backslash, tab.                                                         *)
(***************************************************************************)
C21_SpecialCharactersRoundTrip ==
    (HasParsedTable /\ codec.response.format \in {"csv", "tsv"})
        => \A i \in 1..Len(FirstResult.rows) : \A j \in 1..Len(FirstResult.columns) :
               LET value == FirstResult.rows[i][j]
                   special == IF codec.response.format = "csv" THEN {",", "\"", "\n"}
                              ELSE {"\\", "\t", "\n", "\r"}
               IN  (/\ value.t = "str"
                    /\ Len(value.s) > 0
                    /\ \A k \in 1..Len(value.s) : value.s[k] \in {"x", "t"} \cup special)
                       => /\ ~codec.parsed.raised
                          /\ i <= Len(codec.parsed.value.s)
                          /\ codec.parsed.value.s[i][FirstResult.columns[j]] = value

\* a payload a caller sent has been parsed
HasParsedPayload == codec # <<>> /\ codec.stage = "parsed" /\ codec.received

(***************************************************************************)
(* C22: parse of a header_arrays payload whose header line is a JSON array *)
(* skips every data line that is not JSON or not an array and returns one  *)
(* row for each well-formed data line, in order; a header line that does   *)
(* not parse gives the empty list.  Refuted: json.loads of a data line is  *)
(* inside the try block that encloses the whole loop, so one line that is  *)
(* not JSON makes _parse_header_arrays return [] and the rows already      *)
(* built are lost.                                                         *)
(***************************************************************************)
C22_MalformedLinesSkipped ==
    (/\ HasParsedPayload
     /\ codec.response.format = "header_arrays"
     /\ codec.response.data.t = "str")
        => LET lines == split(strip(codec.response.data.s), "\n")
               header == json_loads_line(lines[1])
               well_formed == SelectSeq(Tail(lines), LAMBDA l : json_loads_line(l).kind = "list")
               row(l) == [name \in {header.items[i].s : i \in 1..Len(header.items)} |->
                             json_loads_line(l).items[1]]
           IN  /\ ~codec.parsed.raised
               /\ header.kind = "error" => codec.parsed.value = PyList(<<>>)
               /\ header.kind = "list"
                      => codec.parsed.value = PyList([k \in 1..Len(well_formed) |-> row(well_formed[k])])

(***************************************************************************)
(* C23: parse raises the format-mismatch error, and returns nothing, for   *)
(* every payload whose format tag is not json, csv, tsv, columnar or       *)
(* header_arrays, whatever its data, missing or null data included.        *)
(* Refuted: parse returns None for data that is None before it looks at    *)
(* the format tag.                                                         *)
(***************************************************************************)
C23_UnsupportedFormatRaises ==
    (HasParsedPayload /\ codec.response.format \notin Formats)
        => /\ codec.parsed.raised
           /\ codec.parsed.type = "ValueError"
           /\ codec.parsed.message = "Unsupported format: " \o codec.response.format

(***************************************************************************)
(* C24: parse of a columnar payload does not raise when its columns have   *)
(* different lengths: there are as many rows as the first column has       *)
(* values, and row i maps each column name to the column's i-th value, or  *)
(* to None where the column has fewer than i values.                       *)
(***************************************************************************)
C24_ColumnarPadsShortColumns ==
    (/\ HasParsedPayload
     /\ codec.response.format = "columnar"
     /\ codec.response.data.t = "dict"
     /\ Len(codec.response.data.keys) > 0)
        => LET data == codec.response.data
               first == data.s[data.keys[1]]
               rows == codec.parsed.value.s
           IN  /\ ~codec.parsed.raised
               /\ codec.parsed.value.t = "list"
               /\ Len(rows) = Len(first)
               /\ \A i \in 1..Len(rows) :
                      /\ DOMAIN rows[i] = {data.keys[k] : k \in 1..Len(data.keys)}
                      /\ \A name \in DOMAIN rows[i] :
                             rows[i][name] = IF i <= Len(data.s[name]) THEN data.s[name][i]
                                             ELSE PyNone

\* a second column shorter than the first has been padded; the witness of C24
C24_Witness ==
    /\ HasParsedPayload
    /\ codec.response.format = "columnar"
    /\ codec.response.data.t = "dict"
    /\ codec.response.data.keys = Columns
    /\ Len(codec.response.data.s[Columns[1]]) = 2
    /\ Len(codec.response.data.s[Columns[2]]) = 1
    /\ codec.response.data.s[Columns[2]][1] = PyStr(<<"x">>)
    /\ ~codec.parsed.raised
    /\ Len(codec.parsed.value.s) = 2
    /\ codec.parsed.value.s[2][Columns[2]] = PyNone

(***************************************************************************)
(* C25: introspection of the published token never aborts the request:     *)
(* whatever the token is (not three dot-separated parts, a middle part     *)
(* that is not base64url or not JSON, a JSON value that is not a mapping), *)
(* its claims are read as a mapping, empty if need be, and downstream      *)
(* processing is invoked.  Refuted: decode_jwt_token returns what          *)
(* json.loads produced, so for a middle part decoding to a number          *)
(* check_auth calls .get on an int and the request is answered with 500.   *)
(***************************************************************************)
C25_IntrospectionNeverAborts ==
    \A r \in Req :
        reqs[r].set_calls > 0
            => /\ ClaimsReadable(decode_jwt_token(reqs[r].published))
               /\ reqs[r].fault # "introspection"
               /\ reqs[r].next_calls = 1

(***************************************************************************)
(* C27: a request that passed the gate with a non-empty Authorization      *)
(* header has its operation run under a bearer credential of the request's *)
(* token, never under the ambient machine identity; a header that is only  *)
(* the "Bearer " prefix is no exception.  Refuted: for that header the     *)
(* gate publishes the empty token, and _get_credential takes an empty      *)
(* token for none and returns DefaultAzureCredential.                      *)
(***************************************************************************)
C27_HeaderNeverAmbient ==
    \A r \in Req :
        (/\ ~IsBypassed(reqs[r].method, reqs[r].path)
         /\ Truthy(AuthHeaderOf(reqs[r].headers))
         /\ reqs[r].tool = "used")
            => /\ reqs[r].credential = BearerTokenCredential(reqs[r].token)
               /\ reqs[r].credential # DefaultAzureCredential

(***************************************************************************)
(* The tool functions that send a request to a remote service:             *)
(* services/map/map_service.py map_update and kusto_service.py _execute.   *)
(* sent is the sequence of the tool calls made, each with its arguments    *)
(* and the requests that left the process during the call.  A text is a    *)
(* sequence of pieces; a dict is a function from key to value.             *)
(***************************************************************************)
\* dict[key] = value
dict_set(d, key, value) == (key :> value) @@ d

\* FabricHttpClientCache.get_client().make_request(method, endpoint, payload)
make_request(method, endpoint, payload) ==
    [method |-> method, endpoint |-> endpoint, payload |-> payload]

\* map_update with every non-None argument put in the payload
map_update_not_none(workspace_id, item_id, display_name, description, response) ==
    LET named == IF display_name # None THEN dict_set(<<>>, "displayName", display_name)
                 ELSE <<>>
        payload == IF description # None THEN dict_set(named, "description", description)
                   ELSE named
        endpoint == <<"/workspaces/">> \o workspace_id \o <<"/items/">> \o item_id
    IN  [requests |-> <<make_request("PATCH", endpoint, payload)>>, result |-> response]

\* map_service.py lines 105-131; response is what the client's make_request
\* returns.  The value is the requests made and the result returned
map_update(workspace_id, item_id, display_name, description, response) ==
    LET named == IF Truthy(display_name) THEN dict_set(<<>>, "displayName", display_name)
                 ELSE <<>>
        payload == IF Truthy(description) THEN dict_set(named, "description", description)
                   ELSE named
        endpoint == <<"/workspaces/">> \o workspace_id \o <<"/items/">> \o item_id
    IN  [requests |-> <<make_request("PATCH", endpoint, payload)>>, result |-> response]

\* CONFIG.timeout_seconds: Optional[int]
NoTimeout == [set |-> FALSE, seconds |-> 0]

Timeout(seconds) == [set |-> TRUE, seconds |-> seconds]

\* kusto_service.py lines 120-143: the options of the ClientRequestProperties
\* built for one request (set_option is an assignment in its options dict)
crp(action, is_destructive, ignore_readonly, client_request_properties, timeout_seconds) ==
    LET two(n) == IF n < 10 THEN "0" \o ToString(n) ELSE ToString(n)
        hours == timeout_seconds.seconds \div 3600
        remainder == timeout_seconds.seconds % 3600
        timeout_str == two(hours) \o ":" \o two(remainder \div 60) \o ":" \o two(remainder % 60)
        readonly == IF ~is_destructive /\ ~ignore_readonly
                    THEN dict_set(<<>>, "request_readonly", TRUE)
                    ELSE <<>>
        timed == IF timeout_seconds.set THEN dict_set(readonly, "servertimeout", timeout_str)
                 ELSE readonly
    IN  client_request_properties @@ timed

\* lines 146-178, called by the tool function operation: the requests that
\* client.execute sends; connected is whether get_kusto_connection returned a
\* connection (otherwise the exception leaves before anything is sent)
execute(operation, readonly_override, client_request_properties, timeout_seconds, connected) ==
    LET action_name == operation.name
        is_destructive == operation.is_destructive
        properties == crp(action_name, is_destructive, readonly_override,
                          client_request_properties, timeout_seconds)
    IN  IF connected THEN <<[action |-> action_name, crp |-> properties]>> ELSE <<>>

\* tool functions of kusto_service.py; is_destructive is the mark
\* @destructive_operation leaves on the function
KustoOperations ==
    {[name |-> "kusto_query", is_destructive |-> FALSE],
     [name |-> "kusto_command", is_destructive |-> TRUE],
     [name |-> "kusto_ingest_inline_into_table", is_destructive |-> TRUE]}

\* client_request_properties a caller may supply; <<>> is None or {}
CallerProperties ==
    {<<>>, [request_readonly |-> FALSE], [request_readonly |-> TRUE], [servertimeout |-> "00:00:05"]}

\* a caller invokes the map_update tool
MapUpdate(item_id, display_name, description, response) ==
    /\ Len(sent) < MaxCalls
    /\ LET out == map_update(<<"w">>, item_id, display_name, description, response)
       IN  sent' = Append(sent, [tool |-> "map_update", item_id |-> item_id,
                                 display_name |-> display_name, description |-> description,
                                 response |-> response, requests |-> out.requests,
                                 result |-> out.result])
    /\ UNCHANGED <<gateVars, extractVars, get_log, threads, exchanged, codec>>

\* a caller invokes one of the Kusto tools, which calls _execute (no tool
\* passes readonly_override)
KustoTool(operation, client_request_properties, timeout_seconds, connected) ==
    /\ Len(sent) < MaxCalls
    /\ sent' = Append(sent, [tool |-> "kusto", operation |-> operation,
                             client_request_properties |-> client_request_properties,
                             requests |-> execute(operation, FALSE, client_request_properties,
                                                  timeout_seconds, connected)])
    /\ UNCHANGED <<gateVars, extractVars, get_log, threads, exchanged, codec>>

InitTools ==
    /\ use_obo_flow = FALSE
    /\ obo_config = DefaultOboConfig
    /\ kusto_env = DefaultKustoEnv
    /\ reqs = [r \in Req |-> NewRequest]
    /\ ctx = [r \in Req |-> None]
    /\ cache = <<>>
    /\ auth_header = <<>>
    /\ extracted = None
    /\ UnitsIdle

NextTools ==
    \/ \E item_id \in {<<"i">>}, display_name \in {None, <<>>, <<"n">>},
          description \in {None, <<>>, <<"d">>},
          response \in {[updated |-> TRUE], [updated |-> FALSE]} :
              MapUpdate(item_id, display_name, description, response)
    \/ \E operation \in KustoOperations, client_request_properties \in CallerProperties,
          timeout_seconds \in {NoTimeout, Timeout(90)}, connected \in BOOLEAN :
              KustoTool(operation, client_request_properties, timeout_seconds, connected)

SpecTools == InitTools /\ [][NextTools]_vars

(***************************************************************************)
(* C26: map_update sends exactly one PATCH request to the item's endpoint; *)
(* its payload has displayName exactly when a non-empty display name was   *)
(* given and description exactly when a non-empty description was given    *)
(* (no key when neither), each with the value given; and map_update        *)
(* returns the client's response unchanged.                                *)
(***************************************************************************)
C26_MapUpdatePatchesOnce ==
    \A k \in 1..Len(sent) :
        sent[k].tool = "map_update"
            => LET call == sent[k]
                   given(v) == v # None /\ Len(v) > 0
               IN  /\ Len(call.requests) = 1
                   /\ call.requests[1].method = "PATCH"
                   /\ call.requests[1].endpoint
                          = <<"/workspaces/", "w", "/items/">> \o call.item_id
                   /\ ("displayName" \in DOMAIN call.requests[1].payload)
                          <=> given(call.display_name)
                   /\ ("description" \in DOMAIN call.requests[1].payload)
                          <=> given(call.description)
                   /\ DOMAIN call.requests[1].payload \subseteq {"displayName", "description"}
                   /\ given(call.display_name)
                          => call.requests[1].payload["displayName"] = call.display_name
                   /\ given(call.description)
                          => call.requests[1].payload["description"] = call.description
                   /\ call.result = call.response

\* an update with an empty display name and a description, and one with neither
C26_Witness ==
    /\ Len(sent) = 2
    /\ sent[1].tool = "map_update"
    /\ sent[1].display_name = <<>>
    /\ sent[1].description = <<"d">>
    /\ DOMAIN sent[1].requests[1].payload = {"description"}
    /\ sent[2].tool = "map_update"
    /\ sent[2].display_name = None
    /\ sent[2].description = None
    /\ sent[2].requests[1].payload = <<>>
    /\ sent[2].result = [updated |-> FALSE]

(***************************************************************************)
(* C29: every request _execute sends for an operation that is not marked   *)
(* destructive (no tool overrides readonly) carries request_readonly =     *)
(* true, whatever client_request_properties the caller supplies; for       *)
(* kusto_command and kusto_ingest_inline_into_table the helper never sets  *)
(* the flag (it is there only if the caller supplied it).  Refuted: _crp   *)
(* applies the caller's properties after it has set the flag, so a caller  *)
(* who supplies request_readonly = false removes the protection.           *)
(***************************************************************************)
C29_ReadonlyFlagSet ==
    \A k \in 1..Len(sent) :
        sent[k].tool = "kusto"
            => \A i \in 1..Len(sent[k].requests) :
                   LET options == sent[k].requests[i].crp
                       supplied == sent[k].client_request_properties
                   IN  IF sent[k].operation.is_destructive
                       THEN "request_readonly" \in DOMAIN options
                                => "request_readonly" \in DOMAIN supplied
                       ELSE /\ "request_readonly" \in DOMAIN options
                            /\ options["request_readonly"] = TRUE

(***************************************************************************)
(* C28: in each of the five formats, parse of the payload the encoder      *)
(* produces for an absent result set, or for one without primary results,  *)
(* returns an empty list of rows and raises nothing.  Refuted for          *)
(* header_arrays: to_header_arrays returns the list [] for such a result,  *)
(* and _parse_header_arrays raises ValueError for data that is not a str.  *)
(***************************************************************************)
C28_EmptyResultDecodes ==
    (/\ codec # <<>>
     /\ codec.stage = "parsed"
     /\ ~codec.received
     /\ no_primary_results(codec.result_set))
        => /\ ~codec.parsed.raised
           /\ codec.parsed.value = PyList(<<>>)

(***************************************************************************)
(* C30: sanitize_uri is idempotent and its result has no whitespace at     *)
(* either end and no trailing slash, so after any calls of get every key   *)
(* of the connection cache is in that normal form and is the URI its       *)
(* Connection was built for.  Refuted: sanitize_uri strips whitespace and  *)
(* then removes one slash, so of two trailing slashes one remains and      *)
(* whitespace that stood before the slash remains; KustoConnection         *)
(* sanitizes the key once more and is built for a different URI.           *)
(***************************************************************************)
C30_KeysInNormalForm ==
    /\ \A i \in 1..Len(get_log) :
           LET key == sanitize_uri(get_log[i].cluster_uri)
           IN  /\ sanitize_uri(key) = key
               /\ Len(key) > 0 => /\ ~IsSpace(key[1])
                                  /\ ~IsSpace(key[Len(key)])
                                  /\ key[Len(key)] # "/"
    /\ \A key \in DOMAIN cache :
           /\ sanitize_uri(key) = key
           /\ cache[key].cluster_uri = key

====
